---------------------------- MODULE Spec2Model ----------------------------
(***************************************************************************)
(* Model of the Modbus stack of verify-rs485-demo: the transport           *)
(* abstraction (modbus_backend.c), the instance-level wrappers             *)
(* (modbus_instance.c), the RTU frame wrapper (modbus_rtu.c) and the PDU   *)
(* codec (modbus_pdu.c, modbus_byte_order_convert.c).                      *)
(*                                                                         *)
(* Spec      : one transport and the calls made on it, the framing read    *)
(*             loop taken one poll at a time.                              *)
(* SpecLive  : Spec with the fairness of the single thread that runs the   *)
(*             read loop.                                                  *)
(* SpecCodec : a PDU object is made into a frame (or a bare PDU), the      *)
(*             bytes travel and are parsed.                                *)
(* SpecEngine: a master call and the slave tick that answers it.           *)
(* SpecCvt   : a 16-bit or 32-bit value is put into a buffer and got back,  *)
(*             a bit of a bit vector is set and got back.                  *)
(***************************************************************************)
EXTENDS Integers, Sequences, FiniteSets, TLC

(***************************************************************************)
(* Bounds of the model.                                                    *)
(***************************************************************************)
\* Largest socket descriptor handed to the adopted-socket factory.
MaxFd == 1
\* Largest buffer size handed to read and write.
MaxBuf == 3
\* Largest timeout set through modbus_backend_timeout_config.
MaxTmo == 6
\* A framing read starts with the millisecond clock in 0..MaxStart.
MaxStart == 1
\* The log of port invocations counts each operation up to LogCap.
LogCap == 2
\* Longest payload of a PDU handed to make.
MaxData == 2
\* Most bytes a received buffer holds after the frame.
MaxExtra == 2
\* Bytes of the bit vector handed to modbus_bitmap_set / modbus_bitmap_get.
MaxBitmap == 2

(***************************************************************************)
(* Program constants.                                                      *)
(***************************************************************************)
MB_BKD_ACK_TMO_MS_DEF == 300
MB_BKD_BYTE_TMO_MS_DEF == 32
\* The argument of modbus_port_delay_ms in the read loop.
DelayMs == 2
\* Mutant: the delay returns at once and the clock does not advance.
modbus_port_delay_ms_NoSleep(t, ms) == t
\* modbus_port_delay_ms(ms): the caller sleeps, the millisecond clock moves on.
modbus_port_delay_ms(t, ms) == t + ms
\* The C null pointer; a handle is a pointer-sized integer.
NULL == 0

BackendTypes == {"RTU", "TCP", "SOCK"}
PortOps == {"open", "close", "read", "write", "flush"}
\* The handle a successful port open returns: some non-NULL pointer.
DevHandle == 1
\* File descriptors a caller can hand to the adopted-socket factory.
SockFds == 0..MaxFd
\* Timeouts the application configures.
TmoValues == {0, MaxTmo \div 2, MaxTmo}
NoCalls == [o \in PortOps |-> [n |-> 0, rc |-> 0, sum |-> 0]]
\* Arguments of a direct transport call: is backend non-NULL, is buf non-NULL,
\* and the size (negative, zero, the smallest buffer); the instance-level
\* wrappers assert all three.
DirectArgs == [backend : BOOLEAN, buf : BOOLEAN, size : {-1, 0, 1}]
NoArgs == [backend |-> TRUE, buf |-> TRUE, size |-> 1]

VARIABLES
    btype,          \* backend->type
    fd,             \* backend->param.sock.fd (SOCK only, else 0)
    hinst,          \* backend->hinst, NULL when absent
    ack_tmo_ms,     \* backend->ack_tmo_ms
    byte_tmo_ms,    \* backend->byte_tmo_ms
    chan,           \* the port's channel (device / socket) is open
    now,            \* the port's millisecond clock, as the framing read sees it
    pc,             \* "idle", or the position inside modbus_backend_read
    op,             \* the call in progress or last returned
    ret,            \* the value the last call returned (0 while one is running)
    bufsize,        \* modbus_backend_read: bufsize
    pos,            \* modbus_backend_read: pos
    told_ms,        \* modbus_backend_read: told_ms
    calls,          \* port operations invoked by the call: count, last result, total
    err_closed,     \* history: modbus_recv / modbus_send closed the handle after an error
    t_call,         \* history: the clock when the framing read was entered
    rx_reads,       \* history: inner reads of this call that returned bytes
    args,           \* history: the arguments of a direct modbus_backend_read / _write
    pdu_type,       \* codec: the direction argument, MB_PDU_TYPE_REQ or MB_PDU_TYPE_RSP
    frm,            \* codec: the frame handed to make (saddr and PDU)
    buf,            \* codec: the frame buffer, a sequence of bytes
    out,            \* codec: what the last parse returned and wrote
    remade,         \* codec: the bytes make writes from the parsed PDU object
    cvt,            \* codec: a byte-order conversion, its argument and results
    eng,            \* engines: the master call, the slave's callbacks, the exchange
    cstep           \* codec: "off", or how far the codec scenario has run

backend == <<btype, fd, hinst, ack_tmo_ms, byte_tmo_ms, chan, now, pc, op, ret,
             bufsize, pos, told_ms, calls, err_closed, t_call, rx_reads, args>>
codec == <<pdu_type, frm, buf, out, remade, cvt, eng, cstep>>
vars == <<backend, codec>>

(***************************************************************************)
(* The operations tables: mb_port_sock_ops has no open.                    *)
(***************************************************************************)
HasOpen(type) == type # "SOCK"

\* One more invocation of port operation o, which returned rc; sum is the
\* total of the positive results (bytes moved).
Invoke(c, o, rc) ==
    [c EXCEPT ![o] = [n |-> IF c[o].n < LogCap THEN c[o].n + 1 ELSE LogCap, rc |-> rc,
                      sum |-> c[o].sum + (IF rc > 0 THEN rc ELSE 0)]]

(***************************************************************************)
(* modbus_backend_create: the three factories.                             *)
(***************************************************************************)
\* Mutant: a factory that assigns zero timeouts instead of the defaults.
modbus_backend_create_NoDefaults(type, sockfd) ==
    [type        |-> type,
     fd          |-> IF type = "SOCK" THEN sockfd ELSE 0,
     ack_tmo_ms  |-> 0,
     byte_tmo_ms |-> 0,
     hinst       |-> IF type = "SOCK" THEN sockfd ELSE NULL]
\* Mutant: the adopted socket starts without a handle, like the other two.
modbus_backend_create_SockNoHandle(type, sockfd) ==
    [type        |-> type,
     fd          |-> IF type = "SOCK" THEN sockfd ELSE 0,
     ack_tmo_ms  |-> MB_BKD_ACK_TMO_MS_DEF,
     byte_tmo_ms |-> MB_BKD_BYTE_TMO_MS_DEF,
     hinst       |-> NULL]
modbus_backend_create(type, sockfd) ==
    [type        |-> type,
     fd          |-> IF type = "SOCK" THEN sockfd ELSE 0,
     ack_tmo_ms  |-> MB_BKD_ACK_TMO_MS_DEF,
     byte_tmo_ms |-> MB_BKD_BYTE_TMO_MS_DEF,
     hinst       |-> IF type = "SOCK" THEN sockfd ELSE NULL]

(***************************************************************************)
(* modbus_backend_open on a non-NULL backend: open_rc is what ops->open    *)
(* returns if it is invoked.                                               *)
(***************************************************************************)
\* Mutant: open without the test for a handle already present.
modbus_backend_open_Reopens(type, h, open_rc) ==
    IF ~HasOpen(type) THEN [ret |-> -1, hinst |-> h, called |-> FALSE]
    ELSE [ret |-> IF open_rc = NULL THEN -1 ELSE 0, hinst |-> open_rc, called |-> TRUE]
modbus_backend_open(type, h, open_rc) ==
    IF h # NULL THEN [ret |-> 0, hinst |-> h, called |-> FALSE]
    ELSE IF ~HasOpen(type) THEN [ret |-> -1, hinst |-> h, called |-> FALSE]
    ELSE [ret |-> IF open_rc = NULL THEN -1 ELSE 0, hinst |-> open_rc, called |-> TRUE]

(***************************************************************************)
(* modbus_backend_close on a non-NULL backend: close_rc is what ops->close *)
(* returns if it is invoked.                                               *)
(***************************************************************************)
\* Mutant: close without the test for an absent handle.
modbus_backend_close_NoHandleTest(h, close_rc) ==
    IF close_rc # 0 THEN [ret |-> -1, hinst |-> h, called |-> TRUE]
    ELSE [ret |-> 0, hinst |-> NULL, called |-> TRUE]
\* Mutant: the handle is dropped also when the port's close fails.
modbus_backend_close_DropsOnFailure(h, close_rc) ==
    IF h = NULL THEN [ret |-> 0, hinst |-> NULL, called |-> FALSE]
    ELSE IF close_rc # 0 THEN [ret |-> -1, hinst |-> NULL, called |-> TRUE]
    ELSE [ret |-> 0, hinst |-> NULL, called |-> TRUE]
modbus_backend_close(h, close_rc) ==
    IF h = NULL THEN [ret |-> 0, hinst |-> NULL, called |-> FALSE]
    ELSE IF close_rc # 0 THEN [ret |-> -1, hinst |-> h, called |-> TRUE]
    ELSE [ret |-> 0, hinst |-> NULL, called |-> TRUE]

\* The channel after modbus_backend_close: a close that fails leaves it open.
ChanAfterClose(c, r, close_rc) == IF r.called /\ close_rc = 0 THEN FALSE ELSE c

\* The handle went from present to absent in the close after an error.
ErrClosed(e, h, r) == IF h # NULL /\ r.hinst = NULL THEN TRUE ELSE e

\* The log after modbus_backend_close.
CallsAfterClose(c, r, close_rc) == IF r.called THEN Invoke(c, "close", close_rc) ELSE c

\* Mutant: the error path of modbus_recv / modbus_send forgets the close.
CloseOnError_Forgotten(h, len, close_rc) == [ret |-> 0, hinst |-> h, called |-> FALSE]

\* Mutant: modbus_recv / modbus_send close the backend whatever was returned.
CloseOnError_Always(h, len, close_rc) == modbus_backend_close(h, close_rc)

(***************************************************************************)
(* modbus_recv / modbus_send after the transport call returned len:        *)
(* a negative length closes the backend.                                   *)
(***************************************************************************)
CloseOnError(h, len, close_rc) ==
    IF len < 0 THEN modbus_backend_close(h, close_rc)
    ELSE [ret |-> 0, hinst |-> h, called |-> FALSE]

\* The transport scenarios run no codec call.
NoFrame == [saddr |-> 0, pdu |-> [fc |-> 0]]
\* No conversion: width in bits, value put, bytes put, value got, bytes got.
NoCvt == [w |-> 16, val |-> 0, nput |-> 0, got |-> 0, nget |-> 0]
\* No exchange: the call, the statuses the slave's callbacks return, how
\* many were invoked, the frame the slave sent, what the line did to it,
\* how the master's transport fared.
NoEng == [api |-> "none", st |-> << >>, invoked |-> 0, rsp |-> << >>, line |-> "ok",
          io |-> "ok"]
CodecOff ==
    /\ pdu_type = "REQ"
    /\ frm = NoFrame
    /\ buf = << >>
    /\ out = [ret |-> 0, frm |-> NoFrame, src |-> "none", len |-> 0]
    /\ remade = << >>
    /\ cvt = NoCvt
    /\ eng = NoEng
    /\ cstep = "off"

\* The state modbus_backend_create leaves behind.
Created(type, sockfd) ==
    LET b == modbus_backend_create(type, sockfd) IN
    /\ btype = b.type
    /\ fd = b.fd
    /\ hinst = b.hinst
    /\ ack_tmo_ms = b.ack_tmo_ms
    /\ byte_tmo_ms = b.byte_tmo_ms
    /\ chan = (type = "SOCK")
    /\ now = 0
    /\ pc = "idle"
    /\ op = "modbus_create"
    /\ ret = 0
    /\ bufsize = 0
    /\ pos = 0
    /\ told_ms = 0
    /\ calls = NoCalls
    /\ err_closed = FALSE
    /\ t_call = 0
    /\ rx_reads = 0
    /\ args = NoArgs

Init ==
    /\ \E type \in BackendTypes, sockfd \in SockFds : Created(type, sockfd)
    /\ CodecOff

\* Outside modbus_backend_read its locals do not exist; the clock is only read
\* inside the framing read, which takes its epoch on entry.
ReadLocalsDead ==
    /\ bufsize' = 0
    /\ pos' = 0
    /\ told_ms' = 0
    /\ now' = 0
    /\ t_call' = 0
    /\ rx_reads' = 0
ConfigUnchanged == UNCHANGED <<btype, fd, ack_tmo_ms, byte_tmo_ms>>

(***************************************************************************)
(* modbus_connect: modbus_backend_open.                                    *)
(***************************************************************************)
modbus_connect ==
    /\ UNCHANGED codec
    /\ pc = "idle"
    /\ args' = NoArgs
    /\ \E open_rc \in {NULL, DevHandle} :
          LET r == modbus_backend_open(btype, hinst, open_rc) IN
          /\ hinst' = r.hinst
          /\ ret' = r.ret
          /\ chan' = IF r.called /\ open_rc # NULL THEN TRUE ELSE chan
          /\ calls' = IF r.called THEN Invoke(NoCalls, "open", open_rc) ELSE NoCalls
          /\ err_closed' = IF r.hinst # NULL THEN FALSE ELSE err_closed
    /\ op' = "modbus_connect"
    /\ UNCHANGED pc
    /\ ConfigUnchanged /\ ReadLocalsDead

(***************************************************************************)
(* modbus_disconn: modbus_backend_close.                                   *)
(***************************************************************************)
modbus_disconn ==
    /\ UNCHANGED codec
    /\ pc = "idle"
    /\ args' = NoArgs
    /\ \E close_rc \in {0, -1} :
          LET r == modbus_backend_close(hinst, close_rc) IN
          /\ hinst' = r.hinst
          /\ ret' = r.ret
          /\ chan' = ChanAfterClose(chan, r, close_rc)
          /\ calls' = CallsAfterClose(NoCalls, r, close_rc)
    /\ op' = "modbus_disconn"
    /\ UNCHANGED err_closed
    /\ UNCHANGED pc
    /\ ConfigUnchanged /\ ReadLocalsDead

(***************************************************************************)
(* modbus_set_tmo: modbus_backend_timeout_config.                          *)
(***************************************************************************)
modbus_set_tmo ==
    /\ UNCHANGED codec
    /\ pc = "idle"
    /\ args' = NoArgs
    /\ \E a \in TmoValues, b \in TmoValues :
          /\ ack_tmo_ms' = a
          /\ byte_tmo_ms' = b
    /\ op' = "modbus_set_tmo"
    /\ ret' = 0
    /\ calls' = NoCalls
    /\ UNCHANGED <<btype, fd, hinst, chan, pc, err_closed>>
    /\ ReadLocalsDead

(***************************************************************************)
(* modbus_backend_write with a valid buffer: write_rc is what ops->write   *)
(* returns if it is invoked.                                               *)
(***************************************************************************)
\* Mutant: write without the test of the size.
modbus_backend_write_NoSizeTest(h, size, write_rc) ==
    IF h = NULL THEN [ret |-> -1, called |-> FALSE]
    ELSE [ret |-> write_rc, called |-> TRUE]
modbus_backend_write(h, size, write_rc) ==
    IF size <= 0 THEN [ret |-> -1, called |-> FALSE]
    ELSE IF h = NULL THEN [ret |-> -1, called |-> FALSE]
    ELSE [ret |-> write_rc, called |-> TRUE]

(***************************************************************************)
(* modbus_send: modbus_backend_write, then close on error.                 *)
(***************************************************************************)
modbus_send ==
    /\ UNCHANGED codec
    /\ pc = "idle"
    /\ args' = NoArgs
    /\ \E size \in 1..MaxBuf, close_rc \in {0, -1} :
       \E write_rc \in -1..size :
          LET w  == modbus_backend_write(hinst, size, write_rc)
              c  == CloseOnError(hinst, w.ret, close_rc)
              c1 == IF w.called THEN Invoke(NoCalls, "write", write_rc) ELSE NoCalls
          IN
          /\ ret' = w.ret
          /\ hinst' = c.hinst
          /\ chan' = ChanAfterClose(chan, c, close_rc)
          /\ calls' = CallsAfterClose(c1, c, close_rc)
          /\ err_closed' = ErrClosed(err_closed, hinst, c)
    /\ op' = "modbus_send"
    /\ UNCHANGED pc
    /\ ConfigUnchanged /\ ReadLocalsDead

(***************************************************************************)
(* modbus_backend_flush: flush_rc is what ops->flush returns.              *)
(***************************************************************************)
\* Mutant: flush without the test of the handle.
modbus_backend_flush_NoHandleTest(h, flush_rc) == [ret |-> flush_rc, called |-> TRUE]
modbus_backend_flush(h, flush_rc) ==
    IF h = NULL THEN [ret |-> -1, called |-> FALSE]
    ELSE [ret |-> flush_rc, called |-> TRUE]

(***************************************************************************)
(* modbus_flush: modbus_backend_flush.                                     *)
(***************************************************************************)
modbus_flush ==
    /\ UNCHANGED codec
    /\ pc = "idle"
    /\ args' = NoArgs
    /\ \E flush_rc \in {0, -1} :
          LET f == modbus_backend_flush(hinst, flush_rc) IN
          /\ ret' = f.ret
          /\ calls' = IF f.called THEN Invoke(NoCalls, "flush", flush_rc) ELSE NoCalls
    /\ op' = "modbus_flush"
    /\ UNCHANGED <<hinst, chan, pc, err_closed>>
    /\ ConfigUnchanged /\ ReadLocalsDead

\* Mutant: modbus_backend_read without the test of the handle.
ReadRejected_NoHandleTest(h, size) == size <= 0

(***************************************************************************)
(* modbus_backend_read, the argument and handle checks before the loop     *)
(* (a non-NULL backend and buffer): TRUE when the call fails at once.      *)
(***************************************************************************)
ReadRejected(h, size) == size <= 0 \/ h = NULL

\* Mutant: the byte timeout is applied before any byte has arrived.
FrameTimedOut_ByteOnly(p, tmo_ms, ack, byte) == tmo_ms > byte

\* Mutant: the ack timeout stays in force after bytes have arrived.
FrameTimedOut_AckOnly(p, tmo_ms, ack, byte) == tmo_ms > ack

(***************************************************************************)
(* The timeout test of the read loop after an inner read returned 0:       *)
(* the byte timeout once data has arrived, the ack timeout before.         *)
(***************************************************************************)
FrameTimedOut(p, tmo_ms, ack, byte) ==
    IF p # 0 THEN tmo_ms > byte ELSE tmo_ms > ack

(***************************************************************************)
(* modbus_recv up to the entry of the loop of modbus_backend_read: either  *)
(* the read fails at once and modbus_recv closes the backend, or the loop  *)
(* starts with pos = 0 and told_ms = now.                                  *)
(***************************************************************************)
modbus_recv ==
    /\ UNCHANGED codec
    /\ pc = "idle"
    /\ args' = NoArgs
    /\ op' = "modbus_recv"
    /\ \E size \in 1..MaxBuf, close_rc \in {0, -1}, t \in 0..MaxStart :
          IF ReadRejected(hinst, size)
          THEN LET c == CloseOnError(hinst, -1, close_rc) IN
               /\ ret' = -1
               /\ hinst' = c.hinst
               /\ chan' = ChanAfterClose(chan, c, close_rc)
               /\ calls' = CallsAfterClose(NoCalls, c, close_rc)
               /\ err_closed' = ErrClosed(err_closed, hinst, c)
               /\ UNCHANGED pc
               /\ ReadLocalsDead
          ELSE /\ pc' = "poll"
               /\ bufsize' = size
               /\ pos' = 0
               /\ now' = t
               /\ told_ms' = t
               /\ t_call' = t
               /\ rx_reads' = 0
               /\ calls' = NoCalls
               /\ ret' = 0
               /\ UNCHANGED <<hinst, chan, err_closed>>
    /\ ConfigUnchanged

\* What follows the return of modbus_backend_read: modbus_recv closes on
\* error, a direct caller gets the length and nothing more happens.
RecvClose(o, h, len, close_rc) ==
    IF o = "modbus_recv" THEN CloseOnError(h, len, close_rc)
    ELSE [ret |-> 0, hinst |-> h, called |-> FALSE]

(***************************************************************************)
(* modbus_backend_read returns len to modbus_recv, which closes the        *)
(* backend when len < 0 and returns len.                                   *)
(***************************************************************************)
\* Mutant: after an inner read failed, the bytes already received are returned.
ReadReturn_Partial(len, close_rc) ==
    LET l == IF len < 0 /\ pos > 0 THEN pos ELSE len
        c == RecvClose(op, hinst, l, close_rc) IN
    /\ pc' = "idle"
    /\ ret' = l
    /\ hinst' = c.hinst
    /\ chan' = ChanAfterClose(chan, c, close_rc)
    /\ err_closed' = ErrClosed(err_closed, hinst, c)
    /\ ReadLocalsDead
ReadReturn(len, close_rc) ==
    LET c == RecvClose(op, hinst, len, close_rc) IN
    /\ pc' = "idle"
    /\ ret' = len
    /\ hinst' = c.hinst
    /\ chan' = ChanAfterClose(chan, c, close_rc)
    /\ err_closed' = ErrClosed(err_closed, hinst, c)
    /\ ReadLocalsDead

\* Mutant: every inner read is offered the whole buffer.
ReadOffer_WholeBuffer(size, p) == size
\* The room an inner read is offered at buf + pos: bufsize - pos.
ReadOffer(size, p) == size - p

(***************************************************************************)
(* One inner read of the loop: ops->read(hinst, buf + pos, bufsize - pos)  *)
(* returns len; bytes advance pos and restart told_ms.                     *)
(***************************************************************************)
ReadPoll ==
    /\ UNCHANGED <<codec, args>>
    /\ pc = "poll"
    /\ \E len \in -1..ReadOffer(bufsize, pos) :
          LET c1 == Invoke(calls, "read", len) IN
          IF len < 0
          THEN \E close_rc \in {0, -1} :
               /\ ReadReturn(-1, close_rc)
               /\ calls' = CallsAfterClose(c1, RecvClose(op, hinst, -1, close_rc), close_rc)
          ELSE IF len > 0
          THEN /\ calls' = c1
               /\ IF pos + len < bufsize
                  THEN /\ pc' = "poll"
                       /\ told_ms' = now
                       /\ pos' = pos + len
                       /\ rx_reads' = rx_reads + 1
                       /\ UNCHANGED <<ret, hinst, chan, err_closed, now, bufsize, t_call>>
                  ELSE ReadReturn(pos + len, 0)
          ELSE /\ pc' = "check"
               /\ calls' = c1
               /\ UNCHANGED <<ret, hinst, chan, err_closed, pos, told_ms, rx_reads, now,
                              bufsize, t_call>>
    /\ UNCHANGED op
    /\ ConfigUnchanged

(***************************************************************************)
(* The rest of a loop round after an inner read returned 0: the timeout    *)
(* test, then modbus_port_delay_ms(2).                                     *)
(***************************************************************************)
ReadCheck ==
    /\ UNCHANGED <<codec, args>>
    /\ pc = "check"
    /\ LET tmo_ms == now - told_ms IN
       IF FrameTimedOut(pos, tmo_ms, ack_tmo_ms, byte_tmo_ms)
       THEN ReadReturn(pos, 0)
       ELSE /\ now' = modbus_port_delay_ms(now, DelayMs)
            /\ pc' = "poll"
            /\ UNCHANGED <<ret, hinst, chan, err_closed, bufsize, pos, told_ms, t_call,
                           rx_reads>>
    /\ UNCHANGED <<op, calls>>
    /\ ConfigUnchanged

\* backend == NULL || buf == NULL, the first operands of the argument test
\* of modbus_backend_read and modbus_backend_write.
NullArgs(a) == ~a.backend \/ ~a.buf

(***************************************************************************)
(* modbus_backend_write called directly, with any arguments.               *)
(***************************************************************************)
backend_write ==
    /\ UNCHANGED codec
    /\ pc = "idle"
    /\ \E a \in DirectArgs :
       \E write_rc \in -1..(IF a.size > 0 THEN a.size ELSE 0) :
          LET w == IF NullArgs(a) THEN [ret |-> -1, called |-> FALSE]
                   ELSE modbus_backend_write(hinst, a.size, write_rc) IN
          /\ args' = a
          /\ ret' = w.ret
          /\ calls' = IF w.called THEN Invoke(NoCalls, "write", write_rc) ELSE NoCalls
    /\ op' = "modbus_backend_write"
    /\ UNCHANGED <<hinst, chan, pc, err_closed>>
    /\ ConfigUnchanged /\ ReadLocalsDead

(***************************************************************************)
(* modbus_backend_read called directly, with any arguments, up to the      *)
(* entry of the loop: nobody closes the backend for a direct caller.       *)
(***************************************************************************)
backend_read ==
    /\ UNCHANGED codec
    /\ pc = "idle"
    /\ op' = "modbus_backend_read"
    /\ \E a \in DirectArgs :
          /\ args' = a
          /\ IF NullArgs(a) \/ ReadRejected(hinst, a.size)
             THEN /\ ret' = -1
                  /\ UNCHANGED pc
                  /\ ReadLocalsDead
             ELSE /\ pc' = "poll"
                  /\ bufsize' = a.size
                  /\ pos' = 0
                  /\ now' = 0
                  /\ told_ms' = 0
                  /\ t_call' = 0
                  /\ rx_reads' = 0
                  /\ ret' = 0
    /\ calls' = NoCalls
    /\ UNCHANGED <<hinst, chan, err_closed>>
    /\ ConfigUnchanged

(***************************************************************************)
(* modbus_destroy: modbus_backend_destory closes the backend, whatever the *)
(* close returns, frees the owned string and the backend; the instance is  *)
(* freed and no call can follow.                                           *)
(***************************************************************************)
modbus_destroy ==
    /\ UNCHANGED codec
    /\ pc = "idle"
    /\ \E close_rc \in {0, -1} :
          LET r == modbus_backend_close(hinst, close_rc) IN
          /\ hinst' = r.hinst
          /\ chan' = ChanAfterClose(chan, r, close_rc)
          /\ calls' = CallsAfterClose(NoCalls, r, close_rc)
    /\ pc' = "freed"
    /\ op' = "modbus_destroy"
    /\ ret' = 0
    /\ args' = NoArgs
    /\ UNCHANGED err_closed
    /\ ConfigUnchanged /\ ReadLocalsDead

Next ==
    \/ modbus_connect
    \/ modbus_disconn
    \/ modbus_set_tmo
    \/ modbus_recv
    \/ ReadPoll
    \/ ReadCheck
    \/ modbus_send
    \/ backend_write
    \/ backend_read
    \/ modbus_flush
    \/ modbus_destroy

Spec == Init /\ [][Next]_vars

\* The thread that called modbus_recv keeps running the loop.
SpecLive == Spec /\ WF_vars(ReadPoll) /\ WF_vars(ReadCheck)

TypeOK ==
    /\ btype \in BackendTypes
    /\ hinst \in {NULL, DevHandle} \cup SockFds
    /\ pc \in {"idle", "poll", "check", "freed"}
    /\ args \in DirectArgs
    /\ pos \in 0..MaxBuf
    /\ ret \in -1..MaxBuf

(***************************************************************************)
(* Claims about the transport (Spec, SpecLive).                            *)
(***************************************************************************)
IoCalls == {"modbus_recv", "modbus_send", "modbus_flush"}
Returned(o) == pc = "idle" /\ op = o

\* C1: the open handle is present (non-NULL) if and only if the underlying
\* channel is currently open.
C1_HandleIffChannelOpen == (hinst # NULL) <=> chan

\* C1, what the code does keep: the same, except for a socket adopted with
\* descriptor 0, whose handle (void *)0 is NULL from creation on.
C1_ExceptAdoptedFdZero ==
    (btype = "SOCK" /\ fd = NULL) \/ ((hinst # NULL) <=> chan)

C3_ClosedUntilConnect ==
    [][ /\ (pc = "idle" /\ hinst = NULL /\ op' \in IoCalls)
            => /\ pc' = "idle" /\ ret' = -1 /\ hinst' = NULL
               /\ calls'["read"].n = 0
               /\ calls'["write"].n = 0
               /\ calls'["flush"].n = 0
        /\ (hinst = NULL /\ hinst' # NULL)
            => op' = "modbus_connect" /\ ret' = 0 /\ calls'["open"].n = 1
        /\ (pc = "idle" /\ hinst # NULL /\ op' = "modbus_send") => calls'["write"].n = 1
        /\ (pc = "idle" /\ hinst # NULL /\ op' = "modbus_flush") => calls'["flush"].n = 1
        /\ (pc = "idle" /\ hinst # NULL /\ op' = "modbus_recv") => pc' = "poll"
        /\ (pc = "poll") => calls'["read"].n > 0
      ]_vars

C3_Witness ==
    /\ err_closed /\ hinst = NULL
    /\ Returned("modbus_recv") /\ ret = -1
    /\ calls["read"].n = 0 /\ calls["close"].n = 0

C6_ReadReturns == (pc \in {"poll", "check"}) ~> (pc = "idle")

C6_Witness ==
    /\ Returned("modbus_recv") /\ ret = 0
    /\ calls["read"].n = LogCap
    /\ ack_tmo_ms = MB_BKD_ACK_TMO_MS_DEF


(***************************************************************************)
(* The codec: bytes are 0..255, a buffer is a sequence of bytes indexed    *)
(* from 1, a pointer into it is an index.                                  *)
(***************************************************************************)
MB_RTU_SADDR_SIZE == 1
MB_RTU_CRC_SIZE == 2
\* modbus_pdu.h: sizes and function codes.
MB_PDU_SIZE_MIN == 1
MB_PDU_SIZE_MAX == 253
MB_RTU_FRM_MIN == MB_RTU_SADDR_SIZE + MB_RTU_CRC_SIZE + MB_PDU_SIZE_MIN
MB_RTU_FRM_MAX == MB_RTU_SADDR_SIZE + MB_RTU_CRC_SIZE + MB_PDU_SIZE_MAX
MODBUS_FC_READ_COILS == 1
MODBUS_FC_READ_DISCRETE_INPUTS == 2
MODBUS_FC_READ_HOLDING_REGISTERS == 3
MODBUS_FC_READ_INPUT_REGISTERS == 4
MODBUS_FC_WRITE_SINGLE_COIL == 5
MODBUS_FC_WRITE_SINGLE_REGISTER == 6
MODBUS_FC_READ_EXCEPTION_STATUS == 7
MODBUS_FC_WRITE_MULTIPLE_COILS == 15
MODBUS_FC_WRITE_MULTIPLE_REGISTERS == 16
MODBUS_FC_REPORT_SLAVE_ID == 17
MODBUS_FC_MASK_WRITE_REGISTER == 22
MODBUS_FC_WRITE_AND_READ_REGISTERS == 23
\* The exception indicator: the high bit of the function code.
MODBUS_FC_EXCEPT_CHK(fc) == fc >= 128

\* Mutant: the low byte is taken first.
modbus_cvt_u16_get_LittleEndian(b, p) == (b[p] + b[p + 1] * 256) % 65536
\* The byte-order conversions; put gives the bytes written (their number is
\* the count it returns), get the value read at pointer p.
modbus_cvt_u8_put(val) == << val % 256 >>
modbus_cvt_u8_get(b, p) == b[p]
\* Mutant: the low byte is written first.
modbus_cvt_u16_put_LowFirst(val) == << val % 256, (val \div 256) % 256 >>
modbus_cvt_u16_put(val) == << (val \div 256) % 256, val % 256 >>
modbus_cvt_u16_get(b, p) == (b[p] * 256 + b[p + 1]) % 65536
\* A uint32_t is kept as its two 16-bit halves, hi * 65536 + lo.
U32(hi, lo) == [hi |-> hi, lo |-> lo]
\* val >> 24, val >> 16, val >> 8, val, each truncated to a byte.
modbus_cvt_u32_put(val) ==
    << (val.hi \div 256) % 256, val.hi % 256, (val.lo \div 256) % 256, val.lo % 256 >>
\* uval <<= 8; uval += byte, in uint32_t: the top byte is shifted out.
ShiftIn32(uval, byte) ==
    U32((uval.hi * 256 + uval.lo \div 256) % 65536, (uval.lo * 256 + byte) % 65536)
modbus_cvt_u32_get(b, p) ==
    ShiftIn32(ShiftIn32(ShiftIn32(U32(0, b[p]), b[p + 1]), b[p + 2]), b[p + 3])

\* The C operators & and | on two bytes.
RECURSIVE BitAnd(_, _)
BitAnd(a, b) ==
    IF a = 0 \/ b = 0 THEN 0
    ELSE ((a % 2) * (b % 2)) + 2 * BitAnd(a \div 2, b \div 2)
RECURSIVE BitOr(_, _)
BitOr(a, b) ==
    IF a = 0 THEN b
    ELSE IF b = 0 THEN a
    ELSE (IF a % 2 = 1 \/ b % 2 = 1 THEN 1 ELSE 0) + 2 * BitOr(a \div 2, b \div 2)
\* 1 << (idx % 8), and its complement as far as a uint8_t holds it.
BitMask(idx) == 2 ^ (idx % 8)
BitMaskNot(idx) == 255 - BitMask(idx)
\* modbus_bitmap_get(pbits, idx) for idx >= 0; pbits[0] is b[1].
modbus_bitmap_get(b, idx) ==
    IF BitAnd(b[idx \div 8 + 1], BitMask(idx)) # 0 THEN 1 ELSE 0
\* Mutant: the bits of a byte are numbered from the most significant one.
modbus_bitmap_set_MsbFirst(b, idx, bit) ==
    IF bit # 0
    THEN [b EXCEPT ![idx \div 8 + 1] = BitOr(@, BitMask(7 - (idx % 8)))]
    ELSE [b EXCEPT ![idx \div 8 + 1] = BitAnd(@, BitMaskNot(7 - (idx % 8)))]
\* modbus_bitmap_set(pbits, idx, bit) for idx >= 0: the bit vector after the call.
modbus_bitmap_set(b, idx, bit) ==
    IF bit # 0
    THEN [b EXCEPT ![idx \div 8 + 1] = BitOr(@, BitMask(idx))]
    ELSE [b EXCEPT ![idx \div 8 + 1] = BitAnd(@, BitMaskNot(idx))]

\* Bitwise exclusive or of two naturals.
RECURSIVE Xor(_, _)
Xor(a, b) ==
    IF a = 0 THEN b
    ELSE IF b = 0 THEN a
    ELSE (((a % 2) + (b % 2)) % 2) + 2 * Xor(a \div 2, b \div 2)

\* CRC-16/Modbus: seed 0xFFFF, reflected polynomial 0xA001.
CRC_SEED == 65535
CRC_POLY == 40961
\* v, evaluated once, handed to F (a C local holding an intermediate value).
Local(v, F(_)) == CHOOSE r \in {F(x) : x \in {v}} : TRUE
\* Mutant: the byte is xored into the high byte of the CRC.
CrcXorByte_HighByte(crc, byte) == Xor(crc, byte * 256)
\* The byte is xored into the low byte of the CRC.
CrcXorByte(crc, byte) == Xor(crc, byte)
\* One bit-step: shift right, xor the polynomial in if the bit shifted out is 1.
CrcShiftOne(crc) ==
    IF crc % 2 = 1 THEN Xor(crc \div 2, CRC_POLY) ELSE crc \div 2
RECURSIVE CrcShift(_, _)
CrcShift(crc0, k) ==
    IF k = 0 THEN crc0
    ELSE Local(crc0, LAMBDA crc : CrcShift(CrcShiftOne(crc), k - 1))
\* modbus_crc_cal(buf, len): over the first len bytes, each byte xored into
\* the low byte and shifted out in 8 steps.
RECURSIVE modbus_crc_cal(_, _)
modbus_crc_cal(b, len) ==
    IF len = 0 THEN CRC_SEED
    ELSE Local(modbus_crc_cal(b, len - 1), LAMBDA crc : CrcShift(CrcXorByte(crc, b[len]), 8))

(***************************************************************************)
(* PDU shapes, make: the bytes written (the return value is their number). *)
(***************************************************************************)
\* Mutant: the exception code is written before the function code.
modbus_pdu_except_make_CodeFirst(exc) ==
    modbus_cvt_u8_put(exc.ec) \o modbus_cvt_u8_put(exc.fc)
modbus_pdu_except_make(exc) ==
    modbus_cvt_u8_put(exc.fc) \o modbus_cvt_u8_put(exc.ec)
modbus_pdu_rd_req_make(rd_req) ==
    modbus_cvt_u8_put(rd_req.fc) \o modbus_cvt_u16_put(rd_req.addr)
        \o modbus_cvt_u16_put(rd_req.nb)
modbus_pdu_rd_rsp_make(rd_rsp) ==
    modbus_cvt_u8_put(rd_rsp.fc) \o modbus_cvt_u8_put(rd_rsp.dlen)
        \o SubSeq(rd_rsp.pdata, 1, rd_rsp.dlen)
modbus_pdu_wr_single_make(wr_single) ==
    modbus_cvt_u8_put(wr_single.fc) \o modbus_cvt_u16_put(wr_single.addr)
        \o modbus_cvt_u16_put(wr_single.val)
modbus_pdu_wr_req_make(wr_req) ==
    modbus_cvt_u8_put(wr_req.fc) \o modbus_cvt_u16_put(wr_req.addr)
        \o modbus_cvt_u16_put(wr_req.nb) \o modbus_cvt_u8_put(wr_req.dlen)
        \o SubSeq(wr_req.pdata, 1, wr_req.dlen)
modbus_pdu_wr_rsp_make(wr_rsp) ==
    modbus_cvt_u8_put(wr_rsp.fc) \o modbus_cvt_u16_put(wr_rsp.addr)
        \o modbus_cvt_u16_put(wr_rsp.nb)
modbus_pdu_mask_wr_make(mask_wr) ==
    modbus_cvt_u8_put(mask_wr.fc) \o modbus_cvt_u16_put(mask_wr.addr)
        \o modbus_cvt_u16_put(mask_wr.val_and) \o modbus_cvt_u16_put(mask_wr.val_or)
modbus_pdu_wr_rd_req_make(wr_rd_req) ==
    modbus_cvt_u8_put(wr_rd_req.fc) \o modbus_cvt_u16_put(wr_rd_req.rd_addr)
        \o modbus_cvt_u16_put(wr_rd_req.rd_nb) \o modbus_cvt_u16_put(wr_rd_req.wr_addr)
        \o modbus_cvt_u16_put(wr_rd_req.wr_nb) \o modbus_cvt_u8_put(wr_rd_req.dlen)
        \o SubSeq(wr_rd_req.pdata, 1, wr_rd_req.dlen)

(***************************************************************************)
(* PDU shapes, parse: b is the buffer, p the pointer to the PDU's first    *)
(* byte, len the length given, old the PDU object before the call.  The    *)
(* result is the return value and the PDU object after the call; a payload *)
(* is a pointer into b.                                                    *)
(***************************************************************************)
Short(old) == [ret |-> 0, pdu |-> old]
\* Mutant: the exception code is read from the function code byte.
modbus_pdu_except_parse_CodeFromFc(b, p, len, old) ==
    IF len < 2 THEN Short(old)
    ELSE [ret |-> 2,
          pdu |-> [fc |-> modbus_cvt_u8_get(b, p), ec |-> modbus_cvt_u8_get(b, p)]]
modbus_pdu_except_parse(b, p, len, old) ==
    IF len < 2 THEN Short(old)
    ELSE [ret |-> 2,
          pdu |-> [fc |-> modbus_cvt_u8_get(b, p), ec |-> modbus_cvt_u8_get(b, p + 1)]]
modbus_pdu_rd_req_parse(b, p, len, old) ==
    IF len < 5 THEN Short(old)
    ELSE [ret |-> 5,
          pdu |-> [fc |-> modbus_cvt_u8_get(b, p), addr |-> modbus_cvt_u16_get(b, p + 1),
                   nb |-> modbus_cvt_u16_get(b, p + 3)]]
\* Mutant: the payload pointer is left on the byte count.
modbus_pdu_rd_rsp_parse_PayloadAtCount(b, p, len, old) ==
    IF len < 3 THEN Short(old)
    ELSE LET dlen == modbus_cvt_u8_get(b, p + 1) IN
         [ret |-> 2 + dlen,
          pdu |-> [fc |-> modbus_cvt_u8_get(b, p), dlen |-> dlen, pdata |-> p + 1]]
modbus_pdu_rd_rsp_parse(b, p, len, old) ==
    IF len < 3 THEN Short(old)
    ELSE LET dlen == modbus_cvt_u8_get(b, p + 1) IN
         [ret |-> 2 + dlen,
          pdu |-> [fc |-> modbus_cvt_u8_get(b, p), dlen |-> dlen, pdata |-> p + 2]]
modbus_pdu_wr_single_parse(b, p, len, old) ==
    IF len < 5 THEN Short(old)
    ELSE [ret |-> 5,
          pdu |-> [fc |-> modbus_cvt_u8_get(b, p), addr |-> modbus_cvt_u16_get(b, p + 1),
                   val |-> modbus_cvt_u16_get(b, p + 3)]]
\* Mutant: the write-multiple request is taken from 6 bytes on.
modbus_pdu_wr_req_parse_MinSix(b, p, len, old) ==
    IF len < 6 THEN Short(old)
    ELSE LET dlen == modbus_cvt_u8_get(b, p + 5) IN
         [ret |-> 6 + dlen,
          pdu |-> [fc |-> modbus_cvt_u8_get(b, p), addr |-> modbus_cvt_u16_get(b, p + 1),
                   nb |-> modbus_cvt_u16_get(b, p + 3), dlen |-> dlen, pdata |-> p + 6]]
modbus_pdu_wr_req_parse(b, p, len, old) ==
    IF len < 7 THEN Short(old)
    ELSE LET dlen == modbus_cvt_u8_get(b, p + 5) IN
         [ret |-> 6 + dlen,
          pdu |-> [fc |-> modbus_cvt_u8_get(b, p), addr |-> modbus_cvt_u16_get(b, p + 1),
                   nb |-> modbus_cvt_u16_get(b, p + 3), dlen |-> dlen, pdata |-> p + 6]]
modbus_pdu_wr_rsp_parse(b, p, len, old) ==
    IF len < 5 THEN Short(old)
    ELSE [ret |-> 5,
          pdu |-> [fc |-> modbus_cvt_u8_get(b, p), addr |-> modbus_cvt_u16_get(b, p + 1),
                   nb |-> modbus_cvt_u16_get(b, p + 3)]]
\* Mutant: the mask-write is taken from 5 bytes on.
modbus_pdu_mask_wr_parse_MinFive(b, p, len, old) ==
    IF len < 5 THEN Short(old)
    ELSE [ret |-> 7,
          pdu |-> [fc |-> modbus_cvt_u8_get(b, p), addr |-> modbus_cvt_u16_get(b, p + 1),
                   val_and |-> modbus_cvt_u16_get(b, p + 3),
                   val_or |-> modbus_cvt_u16_get(b, p + 5)]]
modbus_pdu_mask_wr_parse(b, p, len, old) ==
    IF len < 7 THEN Short(old)
    ELSE [ret |-> 7,
          pdu |-> [fc |-> modbus_cvt_u8_get(b, p), addr |-> modbus_cvt_u16_get(b, p + 1),
                   val_and |-> modbus_cvt_u16_get(b, p + 3),
                   val_or |-> modbus_cvt_u16_get(b, p + 5)]]
modbus_pdu_wr_rd_req_parse(b, p, len, old) ==
    IF len < 11 THEN Short(old)
    ELSE LET dlen == modbus_cvt_u8_get(b, p + 9) IN
         [ret |-> 10 + dlen,
          pdu |-> [fc |-> modbus_cvt_u8_get(b, p), rd_addr |-> modbus_cvt_u16_get(b, p + 1),
                   rd_nb |-> modbus_cvt_u16_get(b, p + 3),
                   wr_addr |-> modbus_cvt_u16_get(b, p + 5),
                   wr_nb |-> modbus_cvt_u16_get(b, p + 7), dlen |-> dlen, pdata |-> p + 10]]

(***************************************************************************)
(* The dispatch on the function code, per direction.                       *)
(***************************************************************************)
RdFcs == {MODBUS_FC_READ_COILS, MODBUS_FC_READ_DISCRETE_INPUTS,
          MODBUS_FC_READ_HOLDING_REGISTERS, MODBUS_FC_READ_INPUT_REGISTERS}
WrSingleFcs == {MODBUS_FC_WRITE_SINGLE_COIL, MODBUS_FC_WRITE_SINGLE_REGISTER}
WrMultiFcs == {MODBUS_FC_WRITE_MULTIPLE_COILS, MODBUS_FC_WRITE_MULTIPLE_REGISTERS}
\* The ten function codes of the dispatch.
SupportedFcs ==
    RdFcs \cup WrSingleFcs \cup WrMultiFcs
        \cup {MODBUS_FC_MASK_WRITE_REGISTER, MODBUS_FC_WRITE_AND_READ_REGISTERS}

modbus_pdu_req_make(pdu) ==
    CASE pdu.fc \in RdFcs -> modbus_pdu_rd_req_make(pdu)
      [] pdu.fc \in WrSingleFcs -> modbus_pdu_wr_single_make(pdu)
      [] pdu.fc \in WrMultiFcs -> modbus_pdu_wr_req_make(pdu)
      [] pdu.fc = MODBUS_FC_MASK_WRITE_REGISTER -> modbus_pdu_mask_wr_make(pdu)
      [] pdu.fc = MODBUS_FC_WRITE_AND_READ_REGISTERS -> modbus_pdu_wr_rd_req_make(pdu)
      [] OTHER -> << >>
\* Mutant: a function code outside the switch is reported as a short frame.
modbus_pdu_req_parse_UnknownIsShort(b, p, len, old) ==
    LET fc == b[p] IN
    CASE fc \in RdFcs -> modbus_pdu_rd_req_parse(b, p, len, old)
      [] fc \in WrSingleFcs -> modbus_pdu_wr_single_parse(b, p, len, old)
      [] fc \in WrMultiFcs -> modbus_pdu_wr_req_parse(b, p, len, old)
      [] fc = MODBUS_FC_MASK_WRITE_REGISTER -> modbus_pdu_mask_wr_parse(b, p, len, old)
      [] fc = MODBUS_FC_WRITE_AND_READ_REGISTERS -> modbus_pdu_wr_rd_req_parse(b, p, len, old)
      [] OTHER -> Short(old)
modbus_pdu_req_parse(b, p, len, old) ==
    LET fc == b[p] IN
    CASE fc \in RdFcs -> modbus_pdu_rd_req_parse(b, p, len, old)
      [] fc \in WrSingleFcs -> modbus_pdu_wr_single_parse(b, p, len, old)
      [] fc \in WrMultiFcs -> modbus_pdu_wr_req_parse(b, p, len, old)
      [] fc = MODBUS_FC_MASK_WRITE_REGISTER -> modbus_pdu_mask_wr_parse(b, p, len, old)
      [] fc = MODBUS_FC_WRITE_AND_READ_REGISTERS -> modbus_pdu_wr_rd_req_parse(b, p, len, old)
      [] OTHER -> [ret |-> -1, pdu |-> old]
mb_pdu_rsp_make(pdu) ==
    IF MODBUS_FC_EXCEPT_CHK(pdu.fc) THEN modbus_pdu_except_make(pdu)
    ELSE CASE pdu.fc \in RdFcs -> modbus_pdu_rd_rsp_make(pdu)
           [] pdu.fc \in WrSingleFcs -> modbus_pdu_wr_single_make(pdu)
           [] pdu.fc \in WrMultiFcs -> modbus_pdu_wr_rsp_make(pdu)
           [] pdu.fc = MODBUS_FC_MASK_WRITE_REGISTER -> modbus_pdu_mask_wr_make(pdu)
           [] pdu.fc = MODBUS_FC_WRITE_AND_READ_REGISTERS -> modbus_pdu_rd_rsp_make(pdu)
           [] OTHER -> << >>
\* Mutant: the response to a single write is parsed as the response to a
\* multiple write.
modbus_pdu_rsp_parse_SingleAsMultiple(b, p, len, old) ==
    LET fc == b[p] IN
    IF MODBUS_FC_EXCEPT_CHK(fc) THEN modbus_pdu_except_parse(b, p, len, old)
    ELSE CASE fc \in RdFcs -> modbus_pdu_rd_rsp_parse(b, p, len, old)
           [] fc \in WrSingleFcs \cup WrMultiFcs -> modbus_pdu_wr_rsp_parse(b, p, len, old)
           [] fc = MODBUS_FC_MASK_WRITE_REGISTER -> modbus_pdu_mask_wr_parse(b, p, len, old)
           [] fc = MODBUS_FC_WRITE_AND_READ_REGISTERS -> modbus_pdu_rd_rsp_parse(b, p, len, old)
           [] OTHER -> [ret |-> -1, pdu |-> old]
\* Mutant: only the exception of a supported function code is an exception.
modbus_pdu_rsp_parse_KnownCodesOnly(b, p, len, old) ==
    LET fc == b[p] IN
    IF MODBUS_FC_EXCEPT_CHK(fc)
    THEN IF (fc - 128) \in RdFcs \cup WrSingleFcs \cup WrMultiFcs
                \cup {MODBUS_FC_MASK_WRITE_REGISTER, MODBUS_FC_WRITE_AND_READ_REGISTERS}
         THEN modbus_pdu_except_parse(b, p, len, old)
         ELSE [ret |-> -1, pdu |-> old]
    ELSE CASE fc \in RdFcs -> modbus_pdu_rd_rsp_parse(b, p, len, old)
           [] fc \in WrSingleFcs -> modbus_pdu_wr_single_parse(b, p, len, old)
           [] fc \in WrMultiFcs -> modbus_pdu_wr_rsp_parse(b, p, len, old)
           [] fc = MODBUS_FC_MASK_WRITE_REGISTER -> modbus_pdu_mask_wr_parse(b, p, len, old)
           [] fc = MODBUS_FC_WRITE_AND_READ_REGISTERS -> modbus_pdu_rd_rsp_parse(b, p, len, old)
           [] OTHER -> [ret |-> -1, pdu |-> old]
modbus_pdu_rsp_parse(b, p, len, old) ==
    LET fc == b[p] IN
    IF MODBUS_FC_EXCEPT_CHK(fc) THEN modbus_pdu_except_parse(b, p, len, old)
    ELSE CASE fc \in RdFcs -> modbus_pdu_rd_rsp_parse(b, p, len, old)
           [] fc \in WrSingleFcs -> modbus_pdu_wr_single_parse(b, p, len, old)
           [] fc \in WrMultiFcs -> modbus_pdu_wr_rsp_parse(b, p, len, old)
           [] fc = MODBUS_FC_MASK_WRITE_REGISTER -> modbus_pdu_mask_wr_parse(b, p, len, old)
           [] fc = MODBUS_FC_WRITE_AND_READ_REGISTERS -> modbus_pdu_rd_rsp_parse(b, p, len, old)
           [] OTHER -> [ret |-> -1, pdu |-> old]
\* modbus_pdu_make names modbus_pdu_rsp_make for the response direction; the
\* only response maker of the file is mb_pdu_rsp_make.
modbus_pdu_make(pdu, type) ==
    IF type = "REQ" THEN modbus_pdu_req_make(pdu)
    ELSE IF type = "RSP" THEN mb_pdu_rsp_make(pdu)
    ELSE << >>
modbus_pdu_parse(b, p, len, old, type) ==
    IF type = "REQ" THEN modbus_pdu_req_parse(b, p, len, old)
    ELSE IF type = "RSP" THEN modbus_pdu_rsp_parse(b, p, len, old)
    ELSE Short(old)

(***************************************************************************)
(* The RTU frame wrapper.                                                  *)
(***************************************************************************)
\* Mutant: the CRC is appended high byte first.
modbus_rtu_frame_make_CrcHighFirst(f, type) ==
    LET head == modbus_cvt_u8_put(f.saddr) \o modbus_pdu_make(f.pdu, type)
        crc == modbus_crc_cal(head, Len(head))
    IN  head \o << crc \div 256, crc % 256 >>
\* Mutant: the CRC is computed over the PDU, the address left out.
modbus_rtu_frame_make_CrcOfPdu(f, type) ==
    LET pdu == modbus_pdu_make(f.pdu, type)
        crc == modbus_crc_cal(pdu, Len(pdu))
    IN  modbus_cvt_u8_put(f.saddr) \o pdu \o << crc % 256, (crc \div 256) % 256 >>
\* Mutant: nothing is written when modbus_pdu_make wrote no PDU.
modbus_rtu_frame_make_FailsWithoutPdu(f, type) ==
    LET head == modbus_cvt_u8_put(f.saddr) \o modbus_pdu_make(f.pdu, type)
        crc == modbus_crc_cal(head, Len(head))
    IN  IF Len(head) = MB_RTU_SADDR_SIZE THEN << >>
        ELSE head \o << crc % 256, (crc \div 256) % 256 >>
\* modbus_rtu_frame_make: the bytes written (the return value is their number).
modbus_rtu_frame_make(f, type) ==
    LET head == modbus_cvt_u8_put(f.saddr) \o modbus_pdu_make(f.pdu, type)
        crc == modbus_crc_cal(head, Len(head))
    IN  head \o << crc % 256, (crc \div 256) % 256 >>

\* Mutant: the CRC is not checked.
modbus_rtu_frame_parse_NoCrcCheck(b, len, old, type) ==
    IF len < MB_RTU_FRM_MIN THEN [ret |-> 0, frm |-> old]
    ELSE LET remain == len - (MB_RTU_SADDR_SIZE + MB_RTU_CRC_SIZE)
             r == modbus_pdu_parse(b, 2, remain, old.pdu, type)
             f == [saddr |-> b[1], pdu |-> r.pdu]
         IN  IF r.ret <= 0 THEN [ret |-> r.ret, frm |-> f]
             ELSE IF remain < r.ret THEN [ret |-> 0, frm |-> f]
             ELSE [ret |-> r.ret, frm |-> f]
\* Mutant: the PDU length plus 3 must equal the received length.
modbus_rtu_frame_parse_ExactLength(b, len, old, type) ==
    IF len < MB_RTU_FRM_MIN THEN [ret |-> 0, frm |-> old]
    ELSE LET remain == len - (MB_RTU_SADDR_SIZE + MB_RTU_CRC_SIZE)
             r == modbus_pdu_parse(b, 2, remain, old.pdu, type)
             f == [saddr |-> b[1], pdu |-> r.pdu]
         IN  IF r.ret <= 0 THEN [ret |-> r.ret, frm |-> f]
             ELSE IF remain # r.ret THEN [ret |-> 0, frm |-> f]
             ELSE IF modbus_crc_cal(b, len) # 0 THEN [ret |-> 0, frm |-> f]
             ELSE [ret |-> r.ret, frm |-> f]
\* Mutant: the minimum length leaves the PDU byte out.
modbus_rtu_frame_parse_MinThree(b, len, old, type) ==
    IF len < MB_RTU_SADDR_SIZE + MB_RTU_CRC_SIZE THEN [ret |-> 0, frm |-> old]
    ELSE LET remain == len - (MB_RTU_SADDR_SIZE + MB_RTU_CRC_SIZE)
             r == modbus_pdu_parse(b, 2, remain, old.pdu, type)
             f == [saddr |-> b[1], pdu |-> r.pdu]
             flen == r.ret + (MB_RTU_SADDR_SIZE + MB_RTU_CRC_SIZE)
         IN  IF r.ret <= 0 THEN [ret |-> r.ret, frm |-> f]
             ELSE IF remain < r.ret THEN [ret |-> 0, frm |-> f]
             ELSE IF modbus_crc_cal(b, flen) # 0 THEN [ret |-> 0, frm |-> f]
             ELSE [ret |-> r.ret, frm |-> f]
\* Mutant: the CRC of the received bytes is checked before the PDU is parsed.
modbus_rtu_frame_parse_CrcFirst(b, len, old, type) ==
    IF len < MB_RTU_FRM_MIN THEN [ret |-> 0, frm |-> old]
    ELSE IF modbus_crc_cal(b, len) # 0 THEN [ret |-> 0, frm |-> old]
    ELSE LET remain == len - (MB_RTU_SADDR_SIZE + MB_RTU_CRC_SIZE)
             r == modbus_pdu_parse(b, 2, remain, old.pdu, type)
             f == [saddr |-> b[1], pdu |-> r.pdu]
         IN  IF r.ret <= 0 THEN [ret |-> r.ret, frm |-> f]
             ELSE IF remain < r.ret THEN [ret |-> 0, frm |-> f]
             ELSE [ret |-> r.ret, frm |-> f]
\* Mutant: the PDU length is not compared with the received length and the
\* CRC is checked over the received length.
modbus_rtu_frame_parse_NoRemainTest(b, len, old, type) ==
    IF len < MB_RTU_FRM_MIN THEN [ret |-> 0, frm |-> old]
    ELSE LET remain == len - (MB_RTU_SADDR_SIZE + MB_RTU_CRC_SIZE)
             r == modbus_pdu_parse(b, 2, remain, old.pdu, type)
             f == [saddr |-> b[1], pdu |-> r.pdu]
         IN  IF r.ret <= 0 THEN [ret |-> r.ret, frm |-> f]
             ELSE IF modbus_crc_cal(b, len) # 0 THEN [ret |-> 0, frm |-> f]
             ELSE [ret |-> r.ret, frm |-> f]
\* modbus_rtu_frame_parse: the return value and the frame object after the call.
modbus_rtu_frame_parse(b, len, old, type) ==
    IF len < MB_RTU_FRM_MIN THEN [ret |-> 0, frm |-> old]
    ELSE LET remain == len - (MB_RTU_SADDR_SIZE + MB_RTU_CRC_SIZE)
             r == modbus_pdu_parse(b, 2, remain, old.pdu, type)
             f == [saddr |-> b[1], pdu |-> r.pdu]
             flen == r.ret + (MB_RTU_SADDR_SIZE + MB_RTU_CRC_SIZE)
         IN  IF r.ret <= 0 THEN [ret |-> r.ret, frm |-> f]
             ELSE IF remain < r.ret THEN [ret |-> 0, frm |-> f]
             ELSE IF modbus_crc_cal(b, flen) # 0 THEN [ret |-> 0, frm |-> f]
             ELSE [ret |-> r.ret, frm |-> f]

(***************************************************************************)
(* SpecCodec: a frame (or a bare PDU) is made from a PDU object, travels,  *)
(* possibly cut short, followed by more bytes or with one byte changed,    *)
(* and is parsed.                                                          *)
(***************************************************************************)
SAddrs == {1, 17}
U16s == {1, 258}
\* The payload bytes differ by position.
DataByte(i) == 171 - i
TamperBytes == {0, MODBUS_FC_READ_EXCEPTION_STATUS, 131}
\* A changed function code (unsupported, exception of an unsupported code,
\* all bits set) or byte count, at the places a PDU header keeps them.
PduTamperBytes == {MODBUS_FC_READ_EXCEPTION_STATUS, MODBUS_FC_REPORT_SLAVE_ID, 135, 255}
PduTamperAt == {1, 2, 6, 10}
\* The one PDU byte of a frame of minimum length: the two one-byte requests
\* of the protocol, a function code of the dispatch, an exception code.
PeerFcs == {MODBUS_FC_READ_EXCEPTION_STATUS, MODBUS_FC_REPORT_SLAVE_ID,
            MODBUS_FC_READ_HOLDING_REGISTERS, 131}
\* What memory past the end of the buffer may hold.
StaleBytes == {0, 255}
\* The PDU object as make reads it: the payload is the dlen bytes at the
\* pointer, those past the end of b being stale.
PduRead(b, pdu, stale) ==
    IF "pdata" \in DOMAIN pdu
    THEN [pdu EXCEPT !.pdata =
             [i \in 1..pdu.dlen |->
                 IF pdu.pdata + i - 1 <= Len(b) THEN b[pdu.pdata + i - 1] ELSE stale]]
    ELSE pdu
Payloads == {[i \in 1..n |-> DataByte(i)] : n \in 0..MaxData}
ExceptPdus == [fc : {131, 144}, ec : {1, 2}]
RdReqPdus == [fc : RdFcs, addr : U16s, nb : U16s]
RdRspPdus(fcs) == {[fc |-> f, dlen |-> Len(d), pdata |-> d] : f \in fcs, d \in Payloads}
WrSinglePdus == [fc : WrSingleFcs, addr : U16s, val : U16s]
WrReqPdus ==
    {[fc |-> f, addr |-> a, nb |-> n, dlen |-> Len(d), pdata |-> d] :
        f \in WrMultiFcs, a \in U16s, n \in U16s, d \in Payloads}
WrRspPdus == [fc : WrMultiFcs, addr : U16s, nb : U16s]
MaskWrPdus == [fc : {MODBUS_FC_MASK_WRITE_REGISTER}, addr : U16s, val_and : U16s, val_or : U16s]
WrRdReqPdus ==
    {[fc |-> MODBUS_FC_WRITE_AND_READ_REGISTERS, rd_addr |-> ra, rd_nb |-> rn,
      wr_addr |-> wa, wr_nb |-> wn, dlen |-> Len(d), pdata |-> d] :
        ra \in U16s, rn \in U16s, wa \in U16s, wn \in U16s, d \in Payloads}
\* The PDU objects handed to make in each direction: every function code of
\* the dispatch with the shape make reads for it, and codes it does not know.
PduInputs(type) ==
    IF type = "REQ"
    THEN RdReqPdus \cup WrSinglePdus \cup WrReqPdus \cup MaskWrPdus \cup WrRdReqPdus
         \cup {[fc |-> MODBUS_FC_READ_EXCEPTION_STATUS], [fc |-> MODBUS_FC_REPORT_SLAVE_ID]}
         \cup [fc : {131}, ec : {2}]
    ELSE RdRspPdus(RdFcs \cup {MODBUS_FC_WRITE_AND_READ_REGISTERS}) \cup WrSinglePdus
         \cup WrRspPdus \cup MaskWrPdus \cup ExceptPdus
         \cup {[fc |-> MODBUS_FC_READ_EXCEPTION_STATUS], [fc |-> MODBUS_FC_REPORT_SLAVE_ID]}

InitCodec ==
    /\ Created("RTU", 0)
    /\ pdu_type \in {"REQ", "RSP"}
    /\ \E a \in SAddrs, p \in PduInputs(pdu_type) : frm = [saddr |-> a, pdu |-> p]
    /\ buf = << >>
    /\ out = [ret |-> 0, frm |-> NoFrame, src |-> "none", len |-> 0]
    /\ remade = << >>
    /\ cvt = NoCvt
    /\ eng = NoEng
    /\ cstep = "input"

\* modbus_rtu_frame_make(buf, &frm, type)
frame_make ==
    /\ cstep = "input"
    /\ buf' = modbus_rtu_frame_make(frm, pdu_type)
    /\ cstep' = "made"
    /\ UNCHANGED <<backend, pdu_type, frm, out, remade, cvt, eng>>
\* modbus_pdu_make(buf, &frm.pdu, type)
pdu_make ==
    /\ cstep = "input"
    /\ buf' = modbus_pdu_make(frm.pdu, pdu_type)
    /\ cstep' = "pdu_made"
    /\ UNCHANGED <<backend, pdu_type, frm, out, remade, cvt, eng>>
\* The receiver's read ends before the frame does.
rx_truncate ==
    /\ cstep \in {"made", "cut"}
    /\ Len(buf) > 0
    /\ buf' = SubSeq(buf, 1, Len(buf) - 1)
    /\ cstep' = "cut"
    /\ UNCHANGED <<backend, pdu_type, frm, out, remade, cvt, eng>>
\* The receiver's read holds more bytes after the frame.
rx_extra ==
    /\ cstep = "made"
    /\ \E n \in 1..MaxExtra : \E tail \in [1..n -> TamperBytes] : buf' = buf \o tail
    /\ cstep' = "extra"
    /\ UNCHANGED <<backend, pdu_type, frm, out, remade, cvt, eng>>
\* One byte of the frame arrives changed.
rx_corrupt ==
    /\ cstep = "made"
    /\ \E i \in 1..Len(buf), v \in TamperBytes :
          /\ v # buf[i]
          /\ buf' = [buf EXCEPT ![i] = v]
    /\ cstep' = "corrupt"
    /\ UNCHANGED <<backend, pdu_type, frm, out, remade, cvt, eng>>
\* The size of the fixed header before the payload, by direction and
\* function code (0 for the shapes without payload).
PayloadOffset(type, fc) ==
    CASE type = "RSP" /\ fc \in RdFcs \cup {MODBUS_FC_WRITE_AND_READ_REGISTERS} -> 2
      [] type = "REQ" /\ fc \in WrMultiFcs -> 6
      [] type = "REQ" /\ fc = MODBUS_FC_WRITE_AND_READ_REGISTERS -> 10
      [] OTHER -> 0
\* A peer sends a frame whose byte count does not fit its payload (one less,
\* one or two more), with the CRC-16 of the bytes it sends.
rx_miscount ==
    /\ cstep = "made"
    /\ PayloadOffset(pdu_type, buf[2]) > 0
    /\ \E d \in {-1, 1, 2} :
          LET at == MB_RTU_SADDR_SIZE + PayloadOffset(pdu_type, buf[2])
              head == [SubSeq(buf, 1, Len(buf) - MB_RTU_CRC_SIZE) EXCEPT ![at] = @ + d]
              crc == modbus_crc_cal(head, Len(head))
          IN  /\ buf[at] + d >= 0
              /\ buf' = head \o << crc % 256, crc \div 256 >>
    /\ cstep' = "miscount"
    /\ UNCHANGED <<backend, pdu_type, frm, out, remade, cvt, eng>>
\* A peer sends a frame of minimum length: the address, a PDU of one byte
\* and their CRC-16, low byte first.
rx_peer ==
    /\ cstep = "input"
    /\ \E fc \in PeerFcs :
          LET head == << frm.saddr, fc >>
              crc == modbus_crc_cal(head, Len(head))
          IN  buf' = head \o << crc % 256, crc \div 256 >>
    /\ cstep' = "peer"
    /\ UNCHANGED <<backend, pdu_type, frm, out, remade, cvt, eng>>
\* modbus_rtu_frame_parse(buf, len, &frm, type) on the received bytes.
frame_parse ==
    /\ cstep \in {"made", "cut", "extra", "corrupt", "miscount", "peer"}
    /\ LET r == modbus_rtu_frame_parse(buf, Len(buf), out.frm, pdu_type) IN
       out' = [ret |-> r.ret, frm |-> r.frm, src |-> cstep, len |-> Len(buf)]
    /\ cstep' = "parsed"
    /\ UNCHANGED <<backend, pdu_type, frm, buf, remade, cvt, eng>>
\* The function code or a byte count of the received PDU arrives changed.
pdu_corrupt ==
    /\ cstep = "pdu_made"
    /\ \E i \in PduTamperAt \cap (1..Len(buf)), v \in PduTamperBytes :
          /\ v # buf[i]
          /\ buf' = [buf EXCEPT ![i] = v]
    /\ cstep' = "pdu_corrupt"
    /\ UNCHANGED <<backend, pdu_type, frm, out, remade, cvt, eng>>
\* modbus_pdu_parse(buf, len, &pdu, type): the buffer holds the bytes of a
\* PDU, len of them (at least the function code) have been received.
pdu_parse ==
    /\ cstep \in {"pdu_made", "pdu_corrupt"}
    /\ \E len \in 1..Len(buf) :
          LET r == modbus_pdu_parse(buf, 1, len, out.frm.pdu, pdu_type) IN
          out' = [ret |-> r.ret, frm |-> [out.frm EXCEPT !.pdu = r.pdu], src |-> cstep,
                  len |-> len]
    /\ cstep' = "parsed"
    /\ UNCHANGED <<backend, pdu_type, frm, buf, remade, cvt, eng>>
\* modbus_pdu_make(buf2, &pdu, type) from the PDU object an accepting parse
\* left: the payload is read through the pointer into buf; what lies past
\* the end of buf is not the caller's to know (any byte).
pdu_remake ==
    /\ cstep = "parsed"
    /\ out.src \in {"pdu_made", "pdu_corrupt"}
    /\ out.ret > 0
    /\ \E stale \in StaleBytes :
          remade' = modbus_pdu_make(PduRead(buf, out.frm.pdu, stale), pdu_type)
    /\ cstep' = "remade"
    /\ UNCHANGED <<backend, pdu_type, frm, buf, out, cvt, eng>>

\* After an accepting parse left a payload pointer, the caller writes one
\* byte of the frame buffer (the buffer is reused for the next frame).
buf_write ==
    /\ cstep = "parsed"
    /\ out.src \in {"pdu_made", "pdu_corrupt"}
    /\ out.ret > 0
    /\ "pdata" \in DOMAIN out.frm.pdu
    /\ \E i \in 1..Len(buf), v \in StaleBytes :
          /\ v # buf[i]
          /\ buf' = [buf EXCEPT ![i] = v]
    /\ cstep' = "rewritten"
    /\ UNCHANGED <<backend, pdu_type, frm, out, remade, cvt, eng>>

NextCodec ==
    \/ frame_make
    \/ pdu_make
    \/ rx_truncate
    \/ rx_extra
    \/ rx_corrupt
    \/ rx_miscount
    \/ rx_peer
    \/ frame_parse
    \/ pdu_corrupt
    \/ pdu_parse
    \/ pdu_remake
    \/ buf_write

SpecCodec == InitCodec /\ [][NextCodec]_vars

(***************************************************************************)
(* SpecCvt: a value is written by a put of the byte-order conversions and  *)
(* read back by the get of the same width.                                 *)
(***************************************************************************)
\* Every uint16_t; the uint32_t values whose four bytes are among these.
U16Values == 0..65535
CvtBytes == {0, 1, 127, 128, 255}
U32Values ==
    {U32(b3 * 256 + b2, b1 * 256 + b0) :
        b3 \in CvtBytes, b2 \in CvtBytes, b1 \in CvtBytes, b0 \in CvtBytes}

\* The bit vectors, the bit indices inside them and the values of the
\* uint8_t argument bit (zero, one, other non-zero values).
BitBytes == {0, 1, 128, 165, 255}
BitValues == {0, 1, 2, 255}
BitArgs == [bits : [1..MaxBitmap -> BitBytes], idx : 0..(8 * MaxBitmap - 1), bit : BitValues]

InitCvt ==
    /\ Created("RTU", 0)
    /\ pdu_type = "REQ"
    /\ frm = NoFrame
    /\ out = [ret |-> 0, frm |-> NoFrame, src |-> "none", len |-> 0]
    /\ remade = << >>
    /\ \/ /\ \E v \in U16Values : cvt = [NoCvt EXCEPT !.w = 16, !.val = v]
          /\ buf = << >>
       \/ /\ \E v \in U32Values : cvt = [NoCvt EXCEPT !.w = 32, !.val = v]
          /\ buf = << >>
       \/ /\ \E v \in BitArgs : cvt = [NoCvt EXCEPT !.w = 1, !.val = v]
          /\ buf = cvt.val.bits
    /\ eng = NoEng
    /\ cstep = "cvt_input"

\* modbus_cvt_u16_put(buf, val) / modbus_cvt_u32_put(buf, val)
cvt_put ==
    /\ cstep = "cvt_input"
    /\ cvt.w \in {16, 32}
    /\ buf' = IF cvt.w = 16 THEN modbus_cvt_u16_put(cvt.val) ELSE modbus_cvt_u32_put(cvt.val)
    /\ cvt' = [cvt EXCEPT !.nput = Len(buf')]
    /\ cstep' = "cvt_put"
    /\ UNCHANGED <<backend, pdu_type, frm, out, remade, eng>>
\* modbus_cvt_u16_get(buf, &val) / modbus_cvt_u32_get(buf, &val)
cvt_get ==
    /\ cstep = "cvt_put"
    /\ cvt' = [cvt EXCEPT
                  !.got = IF cvt.w = 16 THEN modbus_cvt_u16_get(buf, 1)
                          ELSE modbus_cvt_u32_get(buf, 1),
                  !.nget = IF cvt.w = 16 THEN 2 ELSE 4]
    /\ cstep' = "cvt_got"
    /\ UNCHANGED <<backend, pdu_type, frm, buf, out, remade, eng>>

\* modbus_bitmap_set(bits, idx, bit)
bitmap_set ==
    /\ cstep = "cvt_input"
    /\ cvt.w = 1
    /\ buf' = modbus_bitmap_set(buf, cvt.val.idx, cvt.val.bit)
    /\ cstep' = "bit_set"
    /\ UNCHANGED <<backend, pdu_type, frm, out, remade, cvt, eng>>
\* modbus_bitmap_get(bits, idx) of the bit just set
bitmap_get ==
    /\ cstep = "bit_set"
    /\ cvt' = [cvt EXCEPT !.got = modbus_bitmap_get(buf, cvt.val.idx)]
    /\ cstep' = "bit_got"
    /\ UNCHANGED <<backend, pdu_type, frm, buf, out, remade, eng>>

NextCvt ==
    \/ cvt_put
    \/ cvt_get
    \/ bitmap_set
    \/ bitmap_get

SpecCvt == InitCvt /\ [][NextCvt]_vars

\* The PDU a parsed object shows: a payload pointer read through the buffer.
PduValue(b, pdu) ==
    IF "pdata" \in DOMAIN pdu
    THEN [pdu EXCEPT !.pdata = SubSeq(b, pdu.pdata, pdu.pdata + pdu.dlen - 1)]
    ELSE pdu
TypeOKCodec ==
    /\ pdu_type \in {"REQ", "RSP"}
    /\ \A i \in 1..Len(buf) : buf[i] \in 0..255
    /\ Len(buf) <= MB_RTU_FRM_MAX
    /\ out.ret \in -1..(10 + 255)
    /\ out.len \in 0..Len(IF out.src = "rsp" THEN remade ELSE buf)
    /\ cstep \in {"off", "input", "made", "pdu_made", "pdu_corrupt", "cut", "extra", "corrupt",
                  "miscount", "peer", "parsed", "remade", "rewritten",
                  "cvt_input", "cvt_put", "cvt_got", "bit_set", "bit_got",
                  "m_input", "m_sent", "s_done", "s_garbled", "m_done"}

(***************************************************************************)
(* The engines.  modbus_instance.h declares the master calls and the slave *)
(* tick; what they do is described in sections 4.6 and 4.7 of spec.md.     *)
(* SpecEngine: a master call sends its request (or another master sends a  *)
(* frame), the slave tick answers, the answer travels, the master call     *)
(* returns.                                                                *)
(***************************************************************************)
BitFcs == {MODBUS_FC_READ_COILS, MODBUS_FC_READ_DISCRETE_INPUTS}
\* The byte count of a read response: ceil(nb / 8) for bits, 2 per register.
RdDlen(fc, nb) == IF fc \in BitFcs THEN (nb + 7) \div 8 ELSE 2 * nb
\* What a callback of the slave returns: success, illegal address, illegal
\* value, device failure.
CbStatus == {0, -2, -3, -4}
\* The values the application's callbacks read for the i-th element.
CbBit(i) == i % 2
CbReg(i) == 4660 + i
\* fc | 0x80
FcExcept(fc) == IF fc >= 128 THEN fc ELSE fc + 128

\* The count (and the byte count of write-multiple-coils) lies in the range
\* of the function.
CountOk(req) ==
    CASE req.fc \in BitFcs -> req.nb \in 1..2000
      [] req.fc \in RdFcs \ BitFcs -> req.nb \in 1..125
      [] req.fc = MODBUS_FC_WRITE_MULTIPLE_COILS ->
            req.nb \in 1..1968 /\ req.dlen = (req.nb + 7) \div 8
      [] req.fc = MODBUS_FC_WRITE_MULTIPLE_REGISTERS -> req.nb \in 1..123
      [] req.fc = MODBUS_FC_WRITE_AND_READ_REGISTERS ->
            req.rd_nb \in 1..125 /\ req.wr_nb \in 1..121
      [] OTHER -> TRUE
\* The callbacks a request asks for, one per addressed element: mask-write
\* reads and writes one register, read-write writes first and then reads.
ScanLen(req) ==
    CASE req.fc \in RdFcs \cup WrMultiFcs -> req.nb
      [] req.fc \in WrSingleFcs -> 1
      [] req.fc = MODBUS_FC_MASK_WRITE_REGISTER -> 2
      [] req.fc = MODBUS_FC_WRITE_AND_READ_REGISTERS -> req.wr_nb + req.rd_nb
      [] OTHER -> 0
\* The scan over n elements stops at the first callback that fails.
Scan(st, n) ==
    IF \E i \in 1..n : st[i] # 0
    THEN LET k == CHOOSE i \in 1..n : st[i] # 0 /\ \A j \in 1..(i - 1) : st[j] = 0
         IN  [invoked |-> k, status |-> st[k]]
    ELSE [invoked |-> n, status |-> 0]
\* Bits i..nb packed into the zeroed bit vector, registers i..nb big-endian.
RECURSIVE PackBits(_, _, _)
PackBits(bits, i, nb) ==
    IF i > nb THEN bits
    ELSE PackBits(modbus_bitmap_set(bits, i - 1, CbBit(i)), i + 1, nb)
RECURSIVE PackRegs(_, _)
PackRegs(i, nb) ==
    IF i > nb THEN << >> ELSE modbus_cvt_u16_put(CbReg(i)) \o PackRegs(i + 1, nb)
\* The response PDU to a request all of whose callbacks succeeded.
NormalRsp(req) ==
    CASE req.fc \in BitFcs ->
            [fc |-> req.fc, dlen |-> RdDlen(req.fc, req.nb),
             pdata |-> PackBits([k \in 1..RdDlen(req.fc, req.nb) |-> 0], 1, req.nb)]
      [] req.fc \in RdFcs \ BitFcs ->
            [fc |-> req.fc, dlen |-> RdDlen(req.fc, req.nb), pdata |-> PackRegs(1, req.nb)]
      [] req.fc \in WrSingleFcs -> [fc |-> req.fc, addr |-> req.addr, val |-> req.val]
      [] req.fc \in WrMultiFcs -> [fc |-> req.fc, addr |-> req.addr, nb |-> req.nb]
      [] req.fc = MODBUS_FC_MASK_WRITE_REGISTER ->
            [fc |-> req.fc, addr |-> req.addr, val_and |-> req.val_and,
             val_or |-> req.val_or]
      [] req.fc = MODBUS_FC_WRITE_AND_READ_REGISTERS ->
            [fc |-> req.fc, dlen |-> 2 * req.rd_nb, pdata |-> PackRegs(1, req.rd_nb)]
\* The dispatch of the slave on a parsed request: the response PDU and the
\* number of callbacks invoked.
mb_slave_pdu_deal(req, st) ==
    IF req.fc \notin SupportedFcs
    THEN [rsp |-> [fc |-> FcExcept(req.fc), ec |-> 1], invoked |-> 0]
    ELSE IF ~CountOk(req)
    THEN [rsp |-> [fc |-> FcExcept(req.fc), ec |-> 3], invoked |-> 0]
    ELSE LET s == Scan(st, ScanLen(req)) IN
         IF s.status # 0
         THEN [rsp |-> [fc |-> FcExcept(req.fc), ec |-> -s.status], invoked |-> s.invoked]
         ELSE [rsp |-> NormalRsp(req), invoked |-> s.invoked]
\* The slave tick on the len bytes its framing read returned: a frame error
\* is dropped, a function code the parser does not know is answered with
\* exception 1, a request is dispatched; sent is the frame written.
mb_slave_rsp(b, len, st) ==
    LET r == modbus_rtu_frame_parse(b, len, NoFrame, "REQ") IN
    IF r.ret = 0 THEN [sent |-> << >>, invoked |-> 0]
    ELSE IF r.ret < 0
    THEN [sent |-> modbus_rtu_frame_make(
                      [saddr |-> r.frm.saddr, pdu |-> [fc |-> FcExcept(b[2]), ec |-> 1]],
                      "RSP"),
          invoked |-> 0]
    ELSE LET d == mb_slave_pdu_deal(PduRead(b, r.frm.pdu, 0), st) IN
         [sent |-> modbus_rtu_frame_make([saddr |-> r.frm.saddr, pdu |-> d.rsp], "RSP"),
          invoked |-> d.invoked]

\* The master calls and the request each constructs.
RdCounts(fc) == IF fc \in BitFcs THEN {0, 1, 2} ELSE {0, 1, 2, 126}
RdApis ==
    {<<"mb_read_req", MODBUS_FC_READ_COILS>>,
     <<"mb_read_req", MODBUS_FC_READ_HOLDING_REGISTERS>>,
     <<"mb_read_bits", MODBUS_FC_READ_COILS>>,
     <<"mb_read_input_bits", MODBUS_FC_READ_DISCRETE_INPUTS>>,
     <<"mb_read_regs", MODBUS_FC_READ_HOLDING_REGISTERS>>,
     <<"mb_read_input_regs", MODBUS_FC_READ_INPUT_REGISTERS>>}
MasterCalls ==
    {x \in {[api |-> c[1], pdu |-> [fc |-> c[2], addr |-> 107, nb |-> n]] :
                c \in RdApis, n \in {0, 1, 2, 126}} :
        x.pdu.nb \in RdCounts(x.pdu.fc)}
    \cup
    {[api |-> "mb_write_bit",
      pdu |-> [fc |-> MODBUS_FC_WRITE_SINGLE_COIL, addr |-> 172, val |-> 65280]],
     [api |-> "mb_write_reg",
      pdu |-> [fc |-> MODBUS_FC_WRITE_SINGLE_REGISTER, addr |-> 1, val |-> 3]],
     [api |-> "mb_write_bits",
      pdu |-> [fc |-> MODBUS_FC_WRITE_MULTIPLE_COILS, addr |-> 19, nb |-> 2, dlen |-> 1,
               pdata |-> << 1 >>]],
     [api |-> "mb_write_req",
      pdu |-> [fc |-> MODBUS_FC_WRITE_MULTIPLE_COILS, addr |-> 19, nb |-> 9, dlen |-> 1,
               pdata |-> << 1 >>]],
     [api |-> "mb_write_regs",
      pdu |-> [fc |-> MODBUS_FC_WRITE_MULTIPLE_REGISTERS, addr |-> 1, nb |-> 2, dlen |-> 4,
               pdata |-> << 0, 10, 1, 2 >>]],
     [api |-> "mb_write_req",
      pdu |-> [fc |-> MODBUS_FC_WRITE_MULTIPLE_REGISTERS, addr |-> 1, nb |-> 1, dlen |-> 2,
               pdata |-> << 0, 10 >>]],
     [api |-> "mb_mask_write_reg",
      pdu |-> [fc |-> MODBUS_FC_MASK_WRITE_REGISTER, addr |-> 4, val_and |-> 242,
               val_or |-> 37]]}
    \cup
    {[api |-> "mb_write_and_read_regs",
      pdu |-> [fc |-> MODBUS_FC_WRITE_AND_READ_REGISTERS, rd_addr |-> 3, rd_nb |-> n,
               wr_addr |-> 14, wr_nb |-> 1, dlen |-> 2, pdata |-> << 0, 255 >>]] :
        n \in {1, 2}}

\* The response echoes what the request asked for.
Echoed(req, rsp) ==
    /\ rsp.fc = req.fc
    /\ CASE req.fc \in RdFcs -> rsp.dlen = RdDlen(req.fc, req.nb)
         [] req.fc \in WrSingleFcs -> rsp.addr = req.addr /\ rsp.val = req.val
         [] req.fc \in WrMultiFcs -> rsp.addr = req.addr /\ rsp.nb = req.nb
         [] req.fc = MODBUS_FC_MASK_WRITE_REGISTER ->
               rsp.addr = req.addr /\ rsp.val_and = req.val_and /\ rsp.val_or = req.val_or
         [] req.fc = MODBUS_FC_WRITE_AND_READ_REGISTERS -> rsp.dlen = 2 * req.rd_nb
\* What each call returns on success (modbus_instance.h 96-120): the length
\* of the response data, the requested count, the count of bits or
\* registers, 1.
SuccessValue(api, req, rsp) ==
    CASE api = "mb_read_req" -> rsp.dlen
      [] api \in {"mb_write_bit", "mb_write_reg", "mb_mask_write_reg"} -> 1
      [] api = "mb_write_and_read_regs" -> req.rd_nb
      [] OTHER -> req.nb
\* The master call after the framing read returned len and, for len > 0,
\* the frame was parsed in the response direction with result r: an
\* exception gives its negated code, a response that echoes the request the
\* success value, all else 0.
mb_master_result(api, req, len, r) ==
    IF len <= 0 THEN 0
    ELSE IF r.ret <= 0 THEN 0
    ELSE IF MODBUS_FC_EXCEPT_CHK(r.frm.pdu.fc) THEN -r.frm.pdu.ec
    ELSE IF ~Echoed(req, r.frm.pdu) THEN 0
    ELSE SuccessValue(api, req, r.frm.pdu)

\* The master's transport after a successful modbus_connect.
Connected ==
    /\ btype = "RTU" /\ fd = 0 /\ hinst = DevHandle /\ chan = TRUE
    /\ ack_tmo_ms = MB_BKD_ACK_TMO_MS_DEF /\ byte_tmo_ms = MB_BKD_BYTE_TMO_MS_DEF
    /\ now = 0 /\ pc = "idle" /\ op = "modbus_connect" /\ ret = 0
    /\ bufsize = 0 /\ pos = 0 /\ told_ms = 0
    /\ calls = Invoke(NoCalls, "open", DevHandle)
    /\ err_closed = FALSE /\ t_call = 0 /\ rx_reads = 0 /\ args = NoArgs

InitEngine ==
    /\ Connected
    /\ pdu_type = "REQ"
    /\ \E a \in SAddrs, c \in MasterCalls :
          /\ frm = [saddr |-> a, pdu |-> c.pdu]
          /\ \E st \in [1..(IF CountOk(c.pdu) THEN ScanLen(c.pdu) ELSE 0) -> CbStatus] :
                eng = [NoEng EXCEPT !.api = c.api, !.st = st]
    /\ buf = << >>
    /\ out = [ret |-> 0, frm |-> NoFrame, src |-> "none", len |-> 0]
    /\ remade = << >>
    /\ cvt = NoCvt
    /\ cstep = "m_input"

\* modbus_send / modbus_recv of the master returned len: the transport is
\* closed on an error.
EngineIo(o, rc, len, close_rc) ==
    LET c == CloseOnError(hinst, len, close_rc) IN
    /\ hinst' = c.hinst
    /\ chan' = ChanAfterClose(chan, c, close_rc)
    /\ calls' = CallsAfterClose(Invoke(NoCalls, o, rc), c, close_rc)
    /\ err_closed' = ErrClosed(err_closed, hinst, c)
    /\ op' = eng.api
    /\ UNCHANGED <<pc, args>>
    /\ ConfigUnchanged /\ ReadLocalsDead

\* The first half of a master call: the request is constructed, wrapped in
\* an RTU frame and written; a write error ends the call with 0.
mb_req_send ==
    /\ cstep = "m_input"
    /\ \E f \in {modbus_rtu_frame_make(frm, "REQ")}, write_ok \in BOOLEAN,
          close_rc \in {0, -1} :
          LET write_rc == IF write_ok THEN Len(f) ELSE -1
              w == modbus_backend_write(hinst, Len(f), write_rc)
          IN  /\ buf' = f
              /\ EngineIo("write", write_rc, w.ret, close_rc)
              /\ IF w.ret < 0
                 THEN /\ ret' = 0
                      /\ eng' = [eng EXCEPT !.io = "write_error"]
                      /\ cstep' = "m_done"
                 ELSE /\ ret' = 0
                      /\ eng' = eng
                      /\ cstep' = "m_sent"
    /\ UNCHANGED <<pdu_type, frm, out, remade, cvt>>
\* Another master sends the slave a frame of minimum length: a function
\* code outside the ten, or the bare code of a read.
peer_req ==
    /\ cstep = "m_input"
    /\ \E fc \in PeerFcs :
          LET head == << frm.saddr, fc >>
              crc == modbus_crc_cal(head, Len(head))
          IN  buf' = head \o << crc % 256, crc \div 256 >>
    /\ eng' = [eng EXCEPT !.api = "peer", !.st = << >>]
    /\ cstep' = "m_sent"
    /\ UNCHANGED <<backend, pdu_type, frm, out, remade, cvt>>
\* mb_slave_fsm: the slave's framing read returns the frame, the tick
\* answers it or stays silent.
mb_slave_fsm ==
    /\ cstep = "m_sent"
    /\ \E r \in {mb_slave_rsp(buf, Len(buf), eng.st)} :
          /\ remade' = r.sent
          /\ eng' = [eng EXCEPT !.invoked = r.invoked, !.rsp = r.sent]
    /\ cstep' = "s_done"
    /\ UNCHANGED <<backend, pdu_type, frm, buf, out, cvt>>
\* The answer does not arrive as sent: lost, cut short, one byte changed,
\* or a well-formed frame that answers something else (its third byte
\* changed and the CRC made to fit).
rsp_garble ==
    /\ cstep = "s_done"
    /\ eng.api # "peer"
    /\ remade # << >>
    /\ \/ remade' = << >> /\ eng' = [eng EXCEPT !.line = "lost"]
       \/ /\ remade' = SubSeq(remade, 1, Len(remade) - 1)
          /\ eng' = [eng EXCEPT !.line = "cut"]
       \/ \E i \in 1..Len(remade), v \in TamperBytes :
             /\ v # remade[i]
             /\ remade' = [remade EXCEPT ![i] = v]
             /\ eng' = [eng EXCEPT !.line = "corrupt"]
       \/ /\ ~MODBUS_FC_EXCEPT_CHK(remade[2])
          /\ \E v \in TamperBytes :
                LET head == [SubSeq(remade, 1, Len(remade) - 2) EXCEPT ![3] = v]
                    crc == modbus_crc_cal(head, Len(head))
                IN  /\ v # remade[3]
                    /\ remade' = head \o << crc % 256, crc \div 256 >>
          /\ eng' = [eng EXCEPT !.line = "foreign"]
    /\ cstep' = "s_garbled"
    /\ UNCHANGED <<backend, pdu_type, frm, buf, out, cvt>>
\* The second half of a master call: the framing read returns what arrived
\* (nothing: the timeout) or fails; the result is worked out and returned.
mb_req_recv ==
    /\ cstep \in {"s_done", "s_garbled"}
    /\ eng.api # "peer"
    /\ \E read_ok \in BOOLEAN, close_rc \in {0, -1},
          r \in {modbus_rtu_frame_parse(remade, Len(remade), NoFrame, "RSP")} :
          LET len == IF read_ok THEN Len(remade) ELSE -1
          IN  /\ EngineIo("read", len, len, close_rc)
              /\ ret' = mb_master_result(eng.api, frm.pdu, len, r)
              /\ out' = IF len > 0
                        THEN [ret |-> r.ret, frm |-> r.frm, src |-> "rsp", len |-> len]
                        ELSE out
              /\ eng' = IF read_ok THEN eng ELSE [eng EXCEPT !.io = "read_error"]
    /\ cstep' = "m_done"
    /\ UNCHANGED <<pdu_type, frm, buf, remade, cvt>>

NextEngine ==
    \/ mb_req_send
    \/ peer_req
    \/ mb_slave_fsm
    \/ rsp_garble
    \/ mb_req_recv

SpecEngine == InitEngine /\ [][NextEngine]_vars

(***************************************************************************)
(* Claims about the codec (SpecCodec).                                     *)
(***************************************************************************)
\* A function code the direction knows: one of the ten, or, in a response,
\* one with the exception bit.
KnownFc(type, fc) == fc \in SupportedFcs \/ (type = "RSP" /\ fc >= 128)
\* A PDU object make can be asked to write and a peer can receive: a known
\* function code and, where the shape carries a payload, at least one byte.
ValidPdu(type, pdu) ==
    /\ KnownFc(type, pdu.fc)
    /\ "dlen" \in DOMAIN pdu => pdu.dlen >= 1 /\ Len(pdu.pdata) = pdu.dlen
FrameParsed == cstep = "parsed" /\ out.src \in {"made", "cut", "extra", "corrupt"}
FrameOverhead == MB_RTU_SADDR_SIZE + MB_RTU_CRC_SIZE

\* C7: modbus_rtu_frame_parse returns a PDU length n > 0 only when the frame
\* (the first n + 3 bytes: address, PDU and the two CRC bytes) lies inside
\* the received length and its CRC-16 residue is 0.  A buffer shorter than
\* MB_RTU_FRM_MIN gives 0; from 4 bytes on, the result is -1 exactly when
\* the function code is not one the direction knows; a frame cut short or
\* with a changed byte (short PDU, CRC mismatch) with a known code gives 0.
C7_FrameParseResult ==
    FrameParsed =>
        LET len == Len(buf) IN
        /\ out.ret >= -1
        /\ out.ret > 0 =>
              /\ out.ret + FrameOverhead <= len
              /\ modbus_crc_cal(buf, out.ret + FrameOverhead) = 0
        /\ len < MB_RTU_FRM_MIN => out.ret = 0
        /\ len >= MB_RTU_FRM_MIN => (out.ret = -1 <=> ~KnownFc(pdu_type, buf[2]))
        /\ (len >= MB_RTU_FRM_MIN /\ KnownFc(pdu_type, buf[2])
               /\ out.src \in {"cut", "corrupt"}) => out.ret = 0
\* A complete frame with a known function code and a wrong CRC was given 0.
C7_Witness ==
    /\ FrameParsed /\ out.src = "corrupt" /\ out.ret = 0
    /\ Len(buf) >= MB_RTU_FRM_MIN /\ KnownFc(pdu_type, buf[2])
    /\ buf[2] = frm.pdu.fc
    /\ modbus_crc_cal(buf, Len(buf)) # 0

\* C8 (as stated): a buffer is accepted only if the PDU length plus 3 equals
\* the received length, so a valid frame followed by more bytes is rejected.
C8_AcceptedOnlyAtExactLength ==
    (FrameParsed /\ out.ret > 0) => out.ret + FrameOverhead = Len(buf)
\* C8 (amended): a buffer is accepted only if the PDU length plus 3 does
\* not exceed the received length; the bytes after the frame are not looked
\* at: a valid frame followed by one or more bytes is accepted with the
\* frame's PDU length and address.
C8_TrailingBytesIgnored ==
    /\ (FrameParsed /\ out.ret > 0) => out.ret + FrameOverhead <= Len(buf)
    /\ (FrameParsed /\ out.src = "extra" /\ ValidPdu(pdu_type, frm.pdu)) =>
          /\ out.ret = Len(modbus_pdu_make(frm.pdu, pdu_type))
          /\ out.ret + FrameOverhead < Len(buf)
          /\ out.frm.saddr = frm.saddr
C8_Witness ==
    /\ FrameParsed /\ out.src = "extra" /\ out.ret > 0
    /\ Len(buf) = out.ret + FrameOverhead + MaxExtra

\* C9 (as stated): every frame modbus_rtu_frame_make produces, from any PDU
\* object, is accepted by modbus_rtu_frame_parse in the same direction with
\* the PDU length make wrote and the same slave address.
C9_EveryMadeFrameParses ==
    (FrameParsed /\ out.src = "made") =>
        /\ out.ret = Len(buf) - FrameOverhead
        /\ out.frm.saddr = frm.saddr
\* C9 (amended): the frame made from a PDU object with a function code the
\* direction knows and, where the shape carries a payload, a payload of at
\* least one byte is accepted with the PDU length make wrote (frame length
\* minus 3, > 0) and the same slave address; the frame made from any other
\* PDU object is rejected with 0.
C9_ValidMadeFrameParses ==
    (FrameParsed /\ out.src = "made") =>
        IF ValidPdu(pdu_type, frm.pdu)
        THEN /\ out.ret = Len(buf) - FrameOverhead
             /\ out.ret > 0
             /\ out.frm.saddr = frm.saddr
        ELSE out.ret = 0
C9_Witness ==
    /\ FrameParsed /\ out.src = "made" /\ out.ret = Len(buf) - FrameOverhead
    /\ "dlen" \in DOMAIN frm.pdu /\ frm.pdu.dlen = MaxData
    /\ out.frm.saddr = frm.saddr /\ frm.saddr # NoFrame.saddr

\* C10: for every valid PDU object p (known function code for the
\* direction, payload of dlen >= 1 bytes where the shape has one),
\* modbus_pdu_parse over the bytes modbus_pdu_make(p) wrote returns the
\* length make returned and a PDU equal to p field by field, the payload
\* read through the pointer into the buffer.
C10_PduRoundTrip ==
    (cstep = "parsed" /\ out.src = "pdu_made" /\ out.len = Len(buf)
        /\ ValidPdu(pdu_type, frm.pdu)) =>
        /\ out.ret = Len(buf)
        /\ out.ret = Len(modbus_pdu_make(frm.pdu, pdu_type))
        /\ PduValue(buf, out.frm.pdu) = frm.pdu
C10_Witness ==
    /\ cstep = "parsed" /\ out.src = "pdu_made" /\ out.len = Len(buf) /\ out.ret = Len(buf)
    /\ frm.pdu.fc = MODBUS_FC_WRITE_AND_READ_REGISTERS /\ pdu_type = "REQ"
    /\ frm.pdu.dlen = MaxData /\ frm.pdu.rd_addr # frm.pdu.wr_nb
    /\ PduValue(buf, out.frm.pdu) = frm.pdu

\* Make applied to what modbus_pdu_parse accepted (result n > 0) from len bytes.
Remade == cstep = "remade"

\* C11: for every byte string modbus_pdu_parse accepts with result n > 0,
\* modbus_pdu_make of the parsed PDU in the same direction returns n and
\* writes exactly the first n of the bytes that were parsed.
C11_MakeAfterParseIsIdentity ==
    Remade =>
        /\ out.ret <= out.len
        /\ Len(remade) = out.ret
        /\ remade = SubSeq(buf, 1, out.ret)
\* C11, short of the failing case: when the result n does not exceed the
\* length that was parsed, make returns n and writes those n bytes.
C11_IdentityWithinLength ==
    (Remade /\ out.ret <= out.len) =>
        /\ Len(remade) = out.ret
        /\ remade = SubSeq(buf, 1, out.ret)

\* The byte sequences of the scenario: every prefix of a frame, and PDUs,
\* as made or with a changed byte.
HoldsBytes == cstep \in {"made", "cut", "pdu_made", "pdu_corrupt"}
\* b followed by CRC(b), low byte first.
WithCrc(b) ==
    Local(modbus_crc_cal(b, Len(b)), LAMBDA crc : b \o << crc % 256, crc \div 256 >>)
\* The CRC over that whole sequence.
Residue(b) == Local(WithCrc(b), LAMBDA f : modbus_crc_cal(f, Len(f)))

\* C12: for every byte sequence b, the CRC-16 over b followed by CRC(b) low
\* byte, then CRC(b) high byte, is 0; a frame modbus_rtu_frame_make wrote
\* has this residue over its whole length.
C12_CrcResidueZero ==
    /\ HoldsBytes => Residue(buf) = 0
    /\ cstep = "made" => modbus_crc_cal(buf, Len(buf)) = 0
\* A sequence that is not itself a frame, with a CRC of two different
\* non-zero bytes.
C12_Witness ==
    /\ cstep = "cut" /\ Len(buf) >= MB_RTU_FRM_MIN
    /\ modbus_crc_cal(buf, Len(buf)) % 256 # 0
    /\ modbus_crc_cal(buf, Len(buf)) \div 256 # 0
    /\ modbus_crc_cal(buf, Len(buf)) % 256 # modbus_crc_cal(buf, Len(buf)) \div 256
    /\ Residue(buf) = 0

\* modbus_pdu_parse has returned (the result stays in out after a remake).
PduParsed == cstep \in {"parsed", "remade"} /\ out.src \in {"pdu_made", "pdu_corrupt"}
\* The minimum length of each shape the claim names, by direction and
\* function code (0 where it names none: mask-write, unknown codes).
ShapeMin(type, fc) ==
    CASE type = "RSP" /\ fc >= 128 -> 2
      [] type = "REQ" /\ fc \in RdFcs \cup WrSingleFcs -> 5
      [] type = "REQ" /\ fc \in WrMultiFcs -> 7
      [] type = "REQ" /\ fc = MODBUS_FC_WRITE_AND_READ_REGISTERS -> 11
      [] type = "RSP" /\ fc \in RdFcs \cup {MODBUS_FC_WRITE_AND_READ_REGISTERS} -> 3
      [] type = "RSP" /\ fc \in WrSingleFcs \cup WrMultiFcs -> 5
      [] OTHER -> 0

\* C13: modbus_pdu_parse returns 0 whenever the length it is given is below
\* the minimum of the shape its function code and direction select
\* (exception 2; read-request, write-single, write-multiple-response 5;
\* write-multiple-request 7; read-write-request 11; read-response 3), and
\* does not return 0 from that minimum on.
C13_ShortPduGivesZero ==
    (PduParsed /\ ShapeMin(pdu_type, buf[1]) > 0) =>
        (out.len < ShapeMin(pdu_type, buf[1]) <=> out.ret = 0)
\* A read-write request one byte short of its header.
C13_Witness ==
    /\ PduParsed /\ pdu_type = "REQ" /\ buf[1] = MODBUS_FC_WRITE_AND_READ_REGISTERS
    /\ out.len = 10 /\ out.ret = 0

\* C14: parsing a read-response (0x01-0x04, response direction) returns 0
\* whenever the length given is less than 2 + byte-count, and
\* modbus_pdu_parse never returns a length larger than the one it was given.
C14_NeverMoreThanGiven ==
    PduParsed =>
        /\ out.ret <= out.len
        /\ (pdu_type = "RSP" /\ buf[1] \in RdFcs /\ out.len >= 2
               /\ out.len < 2 + buf[2]) => out.ret = 0

\* C15: in the request direction modbus_pdu_parse returns -1 exactly for
\* the function codes outside the ten supported ones (0x07, 0x11 and the
\* codes with the high bit among them), at every input length.
C15_UnknownRequestCode ==
    (PduParsed /\ pdu_type = "REQ") => (buf[1] \notin SupportedFcs <=> out.ret = -1)
\* A request with an exception-marked code and bytes enough for any shape.
C15_Witness ==
    /\ PduParsed /\ pdu_type = "REQ" /\ buf[1] = 135
    /\ out.len >= 11 /\ out.ret = -1

\* C16: in the response direction a PDU whose first byte has bit 0x80 set
\* is an exception whatever its low 7 bits: from 2 bytes on the result is 2
\* with fc and exception code taken from the first two bytes, below that
\* it is 0; it is never -1.
C16_HighBitIsException ==
    (PduParsed /\ pdu_type = "RSP" /\ buf[1] >= 128) =>
        IF out.len >= 2
        THEN out.ret = 2 /\ out.frm.pdu = [fc |-> buf[1], ec |-> buf[2]]
        ELSE out.ret = 0
\* The exception of a function code the stack does not support.
C16_Witness ==
    /\ PduParsed /\ pdu_type = "RSP" /\ buf[1] = 135 /\ (buf[1] - 128) \notin SupportedFcs
    /\ out.len >= 2 /\ out.ret = 2 /\ out.frm.pdu.ec = buf[2]

(***************************************************************************)
(* Claims about opening and closing the transport (Spec).                  *)
(***************************************************************************)
\* C17: for an adopted-socket transport (no open in its operations table)
\* modbus_connect is a no-op that returns 0 in every state, also after the
\* transport has been closed.
C17_SockConnectSucceeds ==
    (btype = "SOCK" /\ Returned("modbus_connect")) => ret = 0

\* C18 (as stated): an I/O operation invoked while the handle is absent
\* opens the transport (invokes its open) and then proceeds.
C18_OpenedOnFirstUse ==
    [][ (pc = "idle" /\ hinst = NULL /\ op' \in IoCalls /\ HasOpen(btype))
            => calls'["open"].n = 1 /\ hinst' # NULL
      ]_vars
\* C18 (amended): a closed transport is not opened on use.  modbus_recv,
\* modbus_send and modbus_flush invoked while the handle is absent return
\* -1 at once, invoke no operation of the transport, open included, and
\* leave handle and channel as they were; the transport's open is invoked
\* only by modbus_connect.
C18_NotOpenedOnUse ==
    [][ /\ (pc = "idle" /\ hinst = NULL /\ op' \in IoCalls)
            => /\ pc' = "idle" /\ ret' = -1
               /\ calls' = NoCalls
               /\ hinst' = NULL /\ chan' = chan
        /\ calls'["open"].n > 0 => op' = "modbus_connect"
      ]_vars
\* A flush on a serial transport that was never opened and never failed.
C18_Witness ==
    /\ Returned("modbus_flush") /\ ret = -1
    /\ btype = "RTU" /\ hinst = NULL /\ ~chan /\ ~err_closed
    /\ calls = NoCalls

\* C19: modbus_connect on a transport whose handle is present returns 0
\* without invoking the transport's open and without changing the handle
\* or the channel; a connect invokes open only when the handle is absent,
\* and once, so consecutive connects open the channel at most once.
C19_ConnectIdempotent ==
    [][ /\ (pc = "idle" /\ hinst # NULL /\ op' = "modbus_connect")
            => /\ ret' = 0
               /\ hinst' = hinst /\ chan' = chan
               /\ calls'["open"].n = 0
        /\ (op' = "modbus_connect" /\ calls'["open"].n > 0)
            => hinst = NULL /\ calls'["open"].n = 1
      ]_vars
\* A connect that found the serial device already open.
C19_Witness ==
    /\ Returned("modbus_connect") /\ ret = 0
    /\ btype = "RTU" /\ hinst # NULL /\ chan
    /\ calls["open"].n = 0

\* C20: modbus_disconn on a transport whose handle is absent returns 0
\* without invoking the transport's close; on an open transport whose close
\* succeeds it invokes close once, returns 0 and leaves the handle absent,
\* so the next modbus_disconn is of the first kind.
C20_DisconnIdempotent ==
    [][ /\ (pc = "idle" /\ hinst = NULL /\ op' = "modbus_disconn")
            => /\ ret' = 0
               /\ calls'["close"].n = 0
               /\ hinst' = NULL /\ chan' = chan
        /\ (pc = "idle" /\ hinst # NULL /\ op' = "modbus_disconn"
               /\ calls'["close"].rc = 0)
            => /\ calls'["close"].n = 1
               /\ ret' = 0 /\ hinst' = NULL /\ ~chan'
      ]_vars
\* A disconnect of an adopted socket that had been closed before.
C20_Witness ==
    /\ Returned("modbus_disconn") /\ ret = 0
    /\ btype = "SOCK" /\ fd # NULL /\ hinst = NULL /\ ~chan
    /\ calls["close"].n = 0

(***************************************************************************)
(* Claims about the effects of the transport calls (Spec).                 *)
(***************************************************************************)
\* C21: a modbus_recv that returns 0 or a positive length leaves the
\* transport as it was: no step of the call invokes the port's close, and
\* the handle, the channel and both timeouts are unchanged by every step.
C21_RecvLeavesTransport ==
    [][ (op' = "modbus_recv" /\ ~(pc' = "idle" /\ ret' = -1))
            => /\ calls'["close"].n = 0
               /\ hinst' = hinst /\ chan' = chan
               /\ ack_tmo_ms' = ack_tmo_ms /\ byte_tmo_ms' = byte_tmo_ms
      ]_vars
\* A frame received on an open transport whose timeouts had been configured.
C21_Witness ==
    /\ Returned("modbus_recv") /\ ret > 0
    /\ hinst # NULL /\ chan
    /\ calls["read"].n > 0 /\ calls["close"].n = 0
    /\ ack_tmo_ms # MB_BKD_ACK_TMO_MS_DEF

\* C22: modbus_backend_read and modbus_backend_write called with a null
\* transport, a null buffer or a size <= 0 return -1 at once; no operation
\* of the port is invoked (so nothing touches the buffer) and the handle,
\* the channel and the timeouts are unchanged.
C22_BadArgumentsNoEffect ==
    [][ (/\ pc = "idle"
         /\ op' \in {"modbus_backend_read", "modbus_backend_write"}
         /\ (NullArgs(args') \/ args'.size <= 0))
            => /\ pc' = "idle" /\ ret' = -1
               /\ calls' = NoCalls
               /\ hinst' = hinst /\ chan' = chan
               /\ ack_tmo_ms' = ack_tmo_ms /\ byte_tmo_ms' = byte_tmo_ms
      ]_vars
\* A write of size 0 on an open transport, transport and buffer non-null.
C22_Witness ==
    /\ Returned("modbus_backend_write") /\ ret = -1
    /\ args.backend /\ args.buf /\ args.size = 0
    /\ hinst # NULL /\ chan
    /\ calls = NoCalls

\* C23: teardown closes the open handle: the port's close is invoked at most
\* once by modbus_destroy, and no transport is released while its channel
\* is still open or its handle still present.
C23_ReleasedOnlyClosed ==
    pc = "freed" => /\ calls["close"].n <= 1
                    /\ hinst = NULL
                    /\ ~chan

\* C24: every transport the factory returns has response timeout 300 ms and
\* inter-byte timeout 32 ms, and serial and TCP-client transports are
\* created with the handle absent; the timeouts change only in a
\* modbus_set_tmo.
C24_FactoryDefaults ==
    /\ [](op = "modbus_create"
            => /\ ack_tmo_ms = 300 /\ byte_tmo_ms = 32
               /\ btype \in {"RTU", "TCP"} => hinst = NULL /\ ~chan)
    /\ [][ (ack_tmo_ms' # ack_tmo_ms \/ byte_tmo_ms' # byte_tmo_ms)
              => op' = "modbus_set_tmo" ]_vars
\* A TCP transport opened by its first connect, the timeouts as created.
C24_Witness ==
    /\ Returned("modbus_connect") /\ ret = 0
    /\ btype = "TCP" /\ hinst # NULL /\ calls["open"].n = 1
    /\ ack_tmo_ms = 300 /\ byte_tmo_ms = 32

(***************************************************************************)
(* Claims about the frame layout and the PDU shapes (SpecCodec).           *)
(***************************************************************************)
\* The frame modbus_rtu_frame_make has just written for frm.
FrameMade == cstep = "made"
\* The CRC-16 of the first n bytes of b, split into its two bytes.
CrcBytes(b, n) ==
    Local(modbus_crc_cal(b, n), LAMBDA crc : [lo |-> crc % 256, hi |-> crc \div 256])

\* C25: modbus_rtu_frame_make writes the slave address byte, then the bytes
\* modbus_pdu_make writes for the PDU, then the CRC-16 of those 1 + n bytes,
\* low byte first and high byte second; the length written, which it
\* returns, is 1 + n + 2.
C25_FrameLayout ==
    FrameMade =>
        LET pdu == modbus_pdu_make(frm.pdu, pdu_type)
            n == Len(pdu)
            crc == CrcBytes(buf, 1 + n)
        IN  /\ Len(buf) = 1 + n + 2
            /\ buf[1] = frm.saddr
            /\ SubSeq(buf, 2, 1 + n) = pdu
            /\ buf[1 + n + 1] = crc.lo
            /\ buf[1 + n + 2] = crc.hi
\* The frame of a write-multiple request with the longest payload, whose
\* CRC has two different bytes.
C25_Witness ==
    /\ FrameMade /\ pdu_type = "REQ"
    /\ frm.pdu.fc = MODBUS_FC_WRITE_MULTIPLE_REGISTERS /\ frm.pdu.dlen = MaxData
    /\ Len(buf) = 1 + (6 + MaxData) + 2
    /\ buf[Len(buf) - 1] # buf[Len(buf)]
    /\ frm.saddr = 17

\* modbus_rtu_frame_parse has returned.
RtuParsed ==
    cstep = "parsed" /\ out.src \in {"made", "cut", "extra", "corrupt", "peer"}

MaskWrParsed == PduParsed /\ buf[1] = MODBUS_FC_MASK_WRITE_REGISTER

\* C27 (as stated): for a mask-write (0x16) PDU, in both directions,
\* modbus_pdu_parse returns 0 exactly when the length given is below 5.
C27_MaskWriteMinFive ==
    MaskWrParsed => (out.len < 5 <=> out.ret = 0)
\* C27 (amended): for a mask-write (0x16) PDU, in both directions,
\* modbus_pdu_parse returns 0 exactly when the length given is below 7, the
\* size of the PDU (function code, address, and-mask, or-mask); from 7 bytes
\* on it returns 7 with the three fields read big-endian.
C27_MaskWriteMinSeven ==
    MaskWrParsed =>
        /\ out.len < 7 <=> out.ret = 0
        /\ out.len >= 7 =>
              /\ out.ret = 7
              /\ out.frm.pdu = [fc |-> buf[1],
                                addr |-> buf[2] * 256 + buf[3],
                                val_and |-> buf[4] * 256 + buf[5],
                                val_or |-> buf[6] * 256 + buf[7]]
\* A mask-write response of which 5 bytes were received.
C27_Witness ==
    /\ MaskWrParsed /\ pdu_type = "RSP"
    /\ out.len = 5 /\ out.ret = 0
    /\ Len(buf) = 7

\* The other direction.
OtherType(type) == IF type = "REQ" THEN "RSP" ELSE "REQ"

\* C28: for the function codes 0x05 and 0x06 the direction makes no
\* difference: on every input modbus_pdu_parse gives the same result and
\* the same PDU object in the other direction as in the one it was called
\* with, and modbus_pdu_make writes the same bytes in both directions.
C28_SingleWriteSameBothWays ==
    /\ (PduParsed /\ buf[1] \in WrSingleFcs) =>
          LET other == modbus_pdu_parse(buf, 1, out.len, NoFrame.pdu, OtherType(pdu_type))
          IN  /\ other.ret = out.ret
              /\ other.pdu = out.frm.pdu
    /\ (cstep = "pdu_made" /\ frm.pdu.fc \in WrSingleFcs) =>
          /\ buf = modbus_pdu_make(frm.pdu, OtherType(pdu_type))
          /\ Len(buf) = 5
\* The response to a write of a single register, parsed whole.
C28_Witness ==
    /\ PduParsed /\ pdu_type = "RSP"
    /\ buf[1] = MODBUS_FC_WRITE_SINGLE_REGISTER
    /\ out.len = 5 /\ out.ret = 5
    /\ out.frm.pdu.val = 258

\* Index k of the buffer lies in the payload the parsed PDU points to.
InBorrow(pdu, k) == k >= pdu.pdata /\ k < pdu.pdata + pdu.dlen

\* C29: modbus_pdu_parse does not write the input buffer; the payload it
\* leaves in the PDU object is a pointer to the byte after the fixed header
\* (offset 2 for a read-response, 6 for a write-multiple request, 10 for a
\* read-write request) with the byte count as its length, not a copy: a
\* later write into that part of the buffer changes the payload the parsed
\* PDU shows, while the object itself is unchanged.
C29_PayloadIsBorrow ==
    [][ /\ (cstep \in {"pdu_made", "pdu_corrupt"} /\ cstep' = "parsed") =>
              /\ buf' = buf
              /\ (out'.ret > 0 /\ PayloadOffset(pdu_type, buf[1]) > 0) =>
                    LET off == PayloadOffset(pdu_type, buf[1]) IN
                    /\ out'.frm.pdu.pdata = 1 + off
                    /\ out'.frm.pdu.dlen = buf[off]
              /\ (out'.ret > 0 /\ PayloadOffset(pdu_type, buf[1]) = 0) =>
                    "pdata" \notin DOMAIN out'.frm.pdu
        /\ (cstep = "parsed" /\ cstep' = "rewritten") =>
              /\ out' = out
              /\ \A k \in 1..Len(buf) :
                    (buf'[k] # buf[k] /\ InBorrow(out.frm.pdu, k)) =>
                        LET i == k - out.frm.pdu.pdata + 1 IN
                        /\ PduRead(buf', out.frm.pdu, 0).pdata[i] = buf'[k]
                        /\ PduRead(buf, out.frm.pdu, 0).pdata[i] = buf[k]
      ]_vars
\* The first payload byte of a parsed read-write request, overwritten.
C29_Witness ==
    /\ cstep = "rewritten" /\ pdu_type = "REQ"
    /\ buf[1] = MODBUS_FC_WRITE_AND_READ_REGISTERS
    /\ out.frm.pdu.pdata = 11 /\ out.frm.pdu.dlen = MaxData
    /\ buf[11] \in StaleBytes
    /\ PduRead(buf, out.frm.pdu, 0).pdata[1] = buf[11]

(***************************************************************************)
(* Claims about the byte-order conversions (SpecCvt).                      *)
(***************************************************************************)
\* C30: multi-byte integers are big-endian on the wire: modbus_cvt_u16_put
\* writes the high byte, then the low byte, modbus_cvt_u32_put the four
\* bytes from the most significant down; each put reports 2 (resp. 4) bytes;
\* the get of the same width reads the value put back and reports the same
\* number of bytes.
C30_BigEndianRoundTrip ==
    /\ (cstep \in {"cvt_put", "cvt_got"} /\ cvt.w = 16) =>
          /\ cvt.nput = 2 /\ Len(buf) = 2
          /\ buf[1] = cvt.val \div 256
          /\ buf[2] = cvt.val % 256
    /\ (cstep \in {"cvt_put", "cvt_got"} /\ cvt.w = 32) =>
          /\ cvt.nput = 4 /\ Len(buf) = 4
          /\ buf[1] = cvt.val.hi \div 256
          /\ buf[2] = cvt.val.hi % 256
          /\ buf[3] = cvt.val.lo \div 256
          /\ buf[4] = cvt.val.lo % 256
    /\ cstep = "cvt_got" =>
          /\ cvt.got = cvt.val
          /\ cvt.nget = cvt.nput
\* 0x1234 written as 12 34 and read back.
C30_Witness ==
    /\ cstep = "cvt_got" /\ cvt.w = 16
    /\ cvt.val = 4660 /\ buf = << 18, 52 >>
    /\ cvt.got = 4660 /\ cvt.nget = 2

\* Bit j of the bit vector b, least-significant bit first: bit (j mod 8) of
\* byte (j div 8).
LsbFirstBit(b, j) == (b[j \div 8 + 1] \div (2 ^ (j % 8))) % 2

\* C31: bit vectors are packed least-significant bit first, bit index i at
\* bit (i mod 8) of byte (i div 8): after modbus_bitmap_set(bits, i, b),
\* that bit is 1 if b is non-zero and 0 otherwise, modbus_bitmap_get(bits, i)
\* returns it, and every other bit of the bit vector is unchanged.
C31_BitmapSetThenGet ==
    /\ cstep \in {"bit_set", "bit_got"} =>
          LET i == cvt.val.idx
              want == IF cvt.val.bit # 0 THEN 1 ELSE 0
          IN  /\ Len(buf) = Len(cvt.val.bits)
              /\ LsbFirstBit(buf, i) = want
              /\ \A j \in 0..(8 * Len(buf) - 1) :
                    j # i => LsbFirstBit(buf, j) = LsbFirstBit(cvt.val.bits, j)
    /\ cstep = "bit_got" =>
          cvt.got = (IF cvt.val.bit # 0 THEN 1 ELSE 0)
\* Bit 9 of 0xA5 0xA5 (bit 1 of the second byte) set by a bit argument of 2:
\* the second byte becomes 0xA7.
C31_Witness ==
    /\ cstep = "bit_got" /\ cvt.w = 1
    /\ cvt.val.bits = << 165, 165 >> /\ cvt.val.idx = 9 /\ cvt.val.bit = 2
    /\ buf = << 165, 167 >>
    /\ cvt.got = 1

(***************************************************************************)
(* Claims about the engines (SpecEngine).                                  *)
(***************************************************************************)
\* A master call has returned.
MasterDone == cstep = "m_done"
\* The slave answered with an exception frame.
RspIsExcept == eng.rsp # << >> /\ eng.rsp[2] >= 128
\* The count of bits or registers a request asks for, 1 for a single write.
ReqCount(req) ==
    CASE req.fc \in WrSingleFcs \cup {MODBUS_FC_MASK_WRITE_REGISTER} -> 1
      [] req.fc = MODBUS_FC_WRITE_AND_READ_REGISTERS -> req.rd_nb
      [] OTHER -> req.nb
\* The exchange failed: the transport (write or read error), the timeout
\* (nothing arrived) or the framing (the answer arrived cut, changed, or
\* answers something else).
ExchangeFailed == eng.io # "ok" \/ eng.line # "ok" \/ eng.rsp = << >>

SlaveDone == cstep = "s_done"
\* The first callback that reported a failure, 0 when all succeeded.
FirstFailure ==
    IF \E k \in DOMAIN eng.st : eng.st[k] # 0
    THEN CHOOSE k \in DOMAIN eng.st :
            eng.st[k] # 0 /\ \A j \in 1..(k - 1) : eng.st[j] = 0
    ELSE 0
C33_WitnessUnknown ==
    /\ SlaveDone /\ eng.api = "peer" /\ buf[2] = MODBUS_FC_REPORT_SLAVE_ID
    /\ eng.rsp[2] = 145 /\ eng.rsp[3] = 1

(***************************************************************************)
(* Further claims about the transport (Spec).                              *)
(***************************************************************************)
ReadCalls == {"modbus_recv", "modbus_backend_read"}
\* C34: when an inner read of modbus_backend_read returns a negative value
\* the call returns -1 at once, also when bytes were received before in the
\* same call (pos > 0): the partial length is never returned.
C34_InnerErrorDiscardsData ==
    [][ (pc = "poll" /\ calls'["read"].rc < 0)
            => /\ pc' = "idle" /\ op' \in ReadCalls
               /\ ret' = -1
               /\ calls'["read"].sum = pos
      ]_vars
\* A framing read returned -1 after its inner reads had delivered bytes.
C34_Witness ==
    /\ Returned("modbus_recv") /\ ret = -1
    /\ calls["read"].rc = -1 /\ calls["read"].sum > 0

\* C35: when no inner read fails, modbus_backend_read returns the total
\* number of bytes its inner reads delivered; inside the loop
\* 0 <= pos <= bufsize, pos is that total, an inner read is only made with
\* room left (bufsize - pos > 0), and the result never exceeds bufsize.
C35_ReturnsBytesDelivered ==
    [][ /\ (pc' \in {"poll", "check"})
            => /\ 0 <= pos' /\ pos' <= bufsize'
               /\ pos' = calls'["read"].sum
        /\ (pc' = "poll") => bufsize' - pos' > 0
        /\ (pc = "poll" /\ calls'["read"].rc >= 0)
            => calls'["read"].sum = pos + calls'["read"].rc
        /\ (pc # "idle" /\ pc' = "idle" /\ ret' >= 0)
            => /\ ret' = calls'["read"].sum
               /\ ret' <= bufsize
      ]_vars
\* A framing read filled in two chunks returned their total.
C35_Witness ==
    /\ Returned("modbus_recv") /\ ret = MaxBuf
    /\ calls["read"].n = 2 /\ calls["read"].rc = 1
    /\ calls["read"].sum = ret

(***************************************************************************)
(* Further claims about the codec (SpecCodec).                             *)
(***************************************************************************)
\* modbus_rtu_frame_parse has returned, whatever the receiver's bytes were.
AnyFrameParsed ==
    cstep = "parsed"
        /\ out.src \in {"made", "cut", "extra", "corrupt", "miscount", "peer"}
\* C36: for every buffer modbus_rtu_frame_parse accepts (return > 0), in
\* either direction, the payload the parsed PDU points to lies inside the
\* received bytes before the two CRC bytes: fixed header + byte count <=
\* received length - 3.
C36_AcceptedPayloadInsideFrame ==
    (AnyFrameParsed /\ out.ret > 0) =>
        IF "pdata" \in DOMAIN out.frm.pdu
        THEN LET off == PayloadOffset(pdu_type, buf[2]) IN
             /\ off > 0
             /\ out.frm.pdu.pdata = MB_RTU_SADDR_SIZE + off + 1
             /\ out.frm.pdu.dlen = buf[MB_RTU_SADDR_SIZE + off]
             /\ off + out.frm.pdu.dlen <= out.len - (MB_RTU_SADDR_SIZE + MB_RTU_CRC_SIZE)
             /\ \A k \in 1..MB_RTU_FRM_MAX :
                    InBorrow(out.frm.pdu, k) => k <= out.len - MB_RTU_CRC_SIZE
        ELSE PayloadOffset(pdu_type, buf[2]) = 0
\* An accepted write-multiple request whose payload ends right before the
\* CRC.
C36_Witness ==
    /\ AnyFrameParsed /\ out.ret > 0 /\ pdu_type = "REQ"
    /\ buf[2] = MODBUS_FC_WRITE_MULTIPLE_REGISTERS
    /\ out.frm.pdu.dlen = MaxData
    /\ out.frm.pdu.pdata + out.frm.pdu.dlen - 1 = out.len - MB_RTU_CRC_SIZE
\* A response whose byte count exceeds its payload, with a correct CRC, was
\* rejected.
C36_WitnessRejected ==
    /\ AnyFrameParsed /\ out.src = "miscount" /\ out.ret = 0 /\ pdu_type = "RSP"
    /\ buf[3] > out.len - 5
    /\ modbus_crc_cal(buf, Len(buf)) = 0

(***************************************************************************)
(* Further claims about the handle (Spec).                                 *)
(***************************************************************************)
\* modbus_disconn has returned after the port's close reported a failure.
CloseFailed ==
    /\ Returned("modbus_disconn")
    /\ calls["close"].n = 1 /\ calls["close"].rc # 0
\* C37: when the port's close reports a failure, modbus_backend_close
\* returns -1 and the handle stays present, so the transport still counts
\* as open: the next read or write is forwarded to the port and the next
\* close invokes the port's close again.
C37_FailedCloseKeepsHandle ==
    [][ /\ (pc = "idle" /\ op' = "modbus_disconn"
               /\ calls'["close"].n > 0 /\ calls'["close"].rc # 0)
            => /\ ret' = -1
               /\ hinst # NULL /\ hinst' = hinst
               /\ chan' = chan
        /\ (CloseFailed /\ op' = "modbus_send") => calls'["write"].n = 1
        /\ (CloseFailed /\ op' = "modbus_flush") => calls'["flush"].n = 1
        /\ (CloseFailed /\ op' = "modbus_recv") => pc' = "poll"
        /\ (CloseFailed /\ op' = "modbus_disconn") => calls'["close"].n = 1
        /\ (pc = "poll" /\ op = "modbus_recv") => calls'["read"].n > 0
      ]_vars
\* A disconnect of a TCP connection whose close failed: the handle is kept.
C37_Witness ==
    /\ CloseFailed /\ ret = -1
    /\ btype = "TCP" /\ hinst # NULL /\ chan

\* An adopted-socket transport right after modbus_backend_create.
SockCreated == pc = "idle" /\ op = "modbus_create" /\ btype = "SOCK"
C38_WitnessZero ==
    /\ Returned("modbus_flush") /\ btype = "SOCK" /\ fd = 0
    /\ hinst = NULL /\ ret = -1
    /\ \A o \in PortOps : calls[o].n = 0

C40_UnsupportedBeforeCrc ==
    (AnyFrameParsed /\ out.len >= MB_RTU_FRM_MIN /\ ~KnownFc(pdu_type, buf[2])) =>
        out.ret = -1
\* A frame whose function code arrived changed to 0x07, its CRC therefore
\* wrong, was answered with -1.
C40_Witness ==
    /\ AnyFrameParsed /\ out.src = "corrupt" /\ out.ret = -1
    /\ buf[2] = MODBUS_FC_READ_EXCEPTION_STATUS
    /\ modbus_crc_cal(buf, Len(buf)) # 0
\* A frame of minimum length with function code 0x11 and a correct CRC was
\* answered with -1 as well.
C40_WitnessGoodCrc ==
    /\ AnyFrameParsed /\ out.src = "peer" /\ out.ret = -1
    /\ buf[2] = MODBUS_FC_REPORT_SLAVE_ID
    /\ modbus_crc_cal(buf, Len(buf)) = 0

=============================================================================
